---------------------------- MODULE Spec2Model ----------------------------
(***************************************************************************)
(* A model of the air-quality pipeline: the concurrent point fetcher       *)
(* (fetch_aqi.py), the historical fetcher, the weekly trainer and the      *)
(* next-day predictor (predict_aqi.py), the map renderer (map_builder.py)  *)
(* and the orchestrator (main.py).  Each component is a state machine of   *)
(* its own over its own variables, with its own specification.             *)
(*                                                                         *)
(* Python's None / NaN is the empty tuple and a present value v is <<v>>.  *)
(***************************************************************************)
EXTENDS Integers, Sequences, FiniteSets, TLC

VARIABLES
    \* ---- load_aqi_data (fetch_aqi.py)
    pcF,          \* position of the calling thread
    use_mock,     \* the argument of load_aqi_data
    submitted,    \* number of COORDS handed to executor.submit so far
    started,      \* number of work items taken off the executor's FIFO queue
    running,      \* coordinates whose _fetch_point is executing in a worker
    finished,     \* coordinates whose future has a result
    resp,         \* per coordinate: None, or <<the HTTP outcome of its GET>>
    reqCount,     \* per coordinate: number of GETs issued
    collected,    \* futures already consumed by the as_completed loop
    all_data,     \* the accumulation list
    resultF,      \* the value load_aqi_data returned
    \* ---- fetch_past_week_data (predict_aqi.py)
    pcW, today, use_mock_w, force_refresh, stream, daysLeft, data, resultW,
    \* ---- train_weekly_predictor / predict_tomorrow (predict_aqi.py)
    pcP, df_week, model, resultP,
    \* ---- make_map (map_builder.py)
    pcMap, in_aqi, in_aod, in_pred, show_pred, layers, control, resultMap,
    \* ---- main (main.py)
    pcM, args_force, df_aqi, df_aod, m_model, df_pred, ran, caught

fetchVars == <<pcF, use_mock, submitted, started, running, finished, resp,
               reqCount, collected, all_data, resultF>>
weekVars  == <<pcW, today, use_mock_w, force_refresh, stream, daysLeft, data, resultW>>
predVars  == <<pcP, df_week, model, resultP>>
mapVars   == <<pcMap, in_aqi, in_aod, in_pred, show_pred, layers, control, resultMap>>
mainVars  == <<pcM, args_force, df_aqi, df_aod, m_model, df_pred, ran, caught>>
vars == <<fetchVars, weekVars, predVars, mapVars, mainVars>>

None == <<>>
Some(v) == <<v>>

\* a or b, for values that are None or truthy
PyOr(a, b) == IF a # None THEN a ELSE b

RECURSIVE Flatten(_)
Flatten(ss) == IF ss = <<>> THEN <<>> ELSE Head(ss) \o Flatten(Tail(ss))

Range(s) == {s[i] : i \in DOMAIN s}

\* number of occurrences of x in the sequence s
Count(s, x) == Cardinality({i \in DOMAIN s : s[i] = x})

\* the variables of the other components, which an action leaves alone
notFetch == <<weekVars, predVars, mapVars, mainVars>>
notWeek  == <<fetchVars, predVars, mapVars, mainVars>>
notPred  == <<fetchVars, weekVars, mapVars, mainVars>>
notMap   == <<fetchVars, weekVars, predVars, mainVars>>
notMain  == <<fetchVars, weekVars, predVars, mapVars>>

(***************************************************************************)
(*                      fetch_aqi.py : the Point Fetcher                   *)
(***************************************************************************)

\* Model bounds.  The source has 25 COORDS and max_workers=10; the model
\* keeps the shape (more coordinates than workers) at a checkable size.
NumCoords == 3
max_workers == 2

\* if not all_data or len(all_data) < 10
MinRecords == 10
\* def _mock_aqi_data(n: int = 1000)
MockN == 1000

COORDS == 1 .. NumCoords

\* One raw observation object of the AirNow JSON payload; a missing key is None.
RawRec(lat, lon, pname, par, aqi, cat) ==
    [Latitude |-> lat, Longitude |-> lon, ParameterName |-> pname,
     Parameter |-> par, AQI |-> aqi, Category |-> cat, Unit |-> None,
     ReportingArea |-> None, StateCode |-> None, DateObserved |-> None]

\* Category is a nested object {"Name": ...} or a flat string
CatDict(name) == <<"dict", name>>
CatStr(name) == <<"str", name>>

\* A monitoring station: every request within the 500-unit radius of a
\* station reports it, so payloads of different coordinates overlap.
Station(k, pname, par, aqi, cat) ==
    RawRec(Some(30 + k), Some(-100 - k), pname, par, aqi, cat)

PayloadA ==
    << Station(1, Some("PM2.5"), None, Some(40), CatDict(Some("Good"))),
       Station(2, Some("PM2.5"), None, Some(75), CatDict(Some("Moderate"))),
       Station(3, Some("PM2.5"), None, Some(120), CatDict(Some("Unhealthy for Sensitive Groups"))),
       Station(4, Some("O3"), None, Some(160), CatDict(Some("Unhealthy"))),
       Station(5, Some("PM2.5"), None, Some(55), CatDict(Some("Moderate"))),
       Station(6, Some("PM2.5"), None, Some(0), CatDict(Some("Good"))) >>

PayloadD ==
    << Station(7, Some("O3"), None, Some(210), CatStr("Very Unhealthy")),
       Station(8, Some("PM2.5"), None, Some(320), CatStr("Hazardous")),
       Station(9, Some("PM2.5"), None, Some(30), CatStr("Good")),
       Station(10, Some("PM10"), None, Some(45), CatStr("Fine")),
       Station(11, Some("PM2.5"), None, Some(90), None),
       Station(12, Some("PM2.5"), None, Some(12), CatDict(None)) >>

\* a payload that normalisation thins out: records sharing a triple with
\* PayloadA (station 5 with another AQI, station 6), station 7 under the
\* alternate key and twice, a record without AQI, a record without Latitude
PayloadB ==
    << Station(5, Some("PM2.5"), None, Some(58), CatDict(Some("Moderate"))),
       Station(6, Some("PM2.5"), None, Some(0), CatDict(Some("Good"))),
       Station(7, None, Some("PM2.5"), Some(66), CatStr("Moderate")),
       Station(7, None, Some("PM2.5"), Some(67), CatStr("Moderate")),
       Station(13, Some("PM2.5"), None, None, CatStr("Good")),
       RawRec(None, Some(-114), Some("PM2.5"), None, Some(50), CatStr("Good")) >>

\* the body of an error answer
ErrorBody == << RawRec(None, None, None, None, None, None) >>

\* What requests.get can produce for one coordinate: an exception (timeout,
\* connection error), a non-200 status, or 200 with a JSON list.
Responses ==
    { [exc |-> TRUE,  status |-> 0,   body |-> <<>>],
      [exc |-> FALSE, status |-> 500, body |-> ErrorBody],
      [exc |-> FALSE, status |-> 200, body |-> <<>>],
      [exc |-> FALSE, status |-> 200, body |-> PayloadA],
      [exc |-> FALSE, status |-> 200, body |-> PayloadD],
      [exc |-> FALSE, status |-> 200, body |-> PayloadB] }

\* a plausible slip: the body is parsed whatever the status
FetchPointAnyStatus(r) == IF r.exc THEN <<>> ELSE r.body

\* _fetch_point: the list handed back for the outcome r of the GET
_fetch_point(r) ==
    IF r.exc THEN <<>>                          \* except Exception: ... return []
    ELSE IF r.status = 200
         THEN IF r.body # <<>> THEN r.body      \* if data: return data
              ELSE <<>>
         ELSE <<>>                              \* non-200: logged, return []

\* the dict built for one raw record (lines 70-84)
NormalizeRow(row) ==
    [latitude |-> row.Latitude,
     longitude |-> row.Longitude,
     parameter |-> PyOr(row.ParameterName, row.Parameter),
     aqi |-> row.AQI,
     category |-> IF row.Category # None /\ row.Category[1] = "dict"
                  THEN row.Category[2]
                  ELSE IF row.Category = None THEN None
                       ELSE Some(row.Category[2]),
     unit |-> row.Unit,
     reportingArea |-> row.ReportingArea,
     stateCode |-> row.StateCode,
     utc |-> row.DateObserved]

\* a plausible slip: only the AQI column is required
DropNaAqiOnly(rows) == SelectSeq(rows, LAMBDA r : r.aqi # None)

\* DataFrame.dropna(subset=["latitude", "longitude", "aqi"])
DropNa(rows) ==
    SelectSeq(rows, LAMBDA r : r.latitude # None /\ r.longitude # None /\ r.aqi # None)

Triple(r) == <<r.latitude, r.longitude, r.parameter>>

\* keep the rows at the positions in keep, in order
RECURSIVE KeepAt(_, _, _)
KeepAt(rows, keep, i) ==
    IF i > Len(rows) THEN <<>>
    ELSE (IF i \in keep THEN <<rows[i]>> ELSE <<>>) \o KeepAt(rows, keep, i + 1)

\* a plausible slip: the parameter is left out of the subset
DropDuplicatesLatLon(rows) ==
    KeepAt(rows, {i \in DOMAIN rows :
                    \A j \in 1 .. (i - 1) :
                        <<rows[j].latitude, rows[j].longitude>>
                            # <<rows[i].latitude, rows[i].longitude>>}, 1)

\* DataFrame.drop_duplicates(subset=["latitude", "longitude", "parameter"]):
\* the first row of every triple is kept
DropDuplicates(rows) ==
    KeepAt(rows, {i \in DOMAIN rows :
                    \A j \in 1 .. (i - 1) : Triple(rows[j]) # Triple(rows[i])}, 1)

\* color_map, .map(color_map).fillna("gray")
ColorOf(category) ==
    IF category = Some("Good") THEN "green"
    ELSE IF category = Some("Moderate") THEN "yellow"
    ELSE IF category = Some("Unhealthy for Sensitive Groups") THEN "orange"
    ELSE IF category = Some("Unhealthy") THEN "red"
    ELSE IF category = Some("Very Unhealthy") THEN "purple"
    ELSE IF category = Some("Hazardous") THEN "maroon"
    ELSE "gray"

WithColor(r) ==
    [latitude |-> r.latitude, longitude |-> r.longitude, parameter |-> r.parameter,
     aqi |-> r.aqi, category |-> r.category, unit |-> r.unit,
     reportingArea |-> r.reportingArea, stateCode |-> r.stateCode, utc |-> r.utc,
     color |-> ColorOf(r.category), region |-> "USA"]

\* lines 66-102: the table built from the accumulated raw records
Normalize(raw) ==
    LET rows == [i \in DOMAIN raw |-> NormalizeRow(raw[i])]
        df   == DropDuplicates(DropNa(rows))
    IN  [i \in DOMAIN df |-> WithColor(df[i])]

\* The draws of _mock_aqi_data after random.seed(42), row by row:
\* <<latitude, longitude, parameter, aqi, category>>, the two coordinates
\* in millionths of a degree (rounded down).
MockDraws == <<
    <<26783276, -81990072, "PM2.5", 62, "Unhealthy">>, <<42411780, -85751430, "PM2.5", 113, "Good">>,
    <<24744930, -112318998, "PM2.5", 148, "Good">>, <<41900490, -84323152, "NO2", 61, "Good">>,
    <<38731642, -78053034, "PM2.5", 45, "Moderate">>, <<34565359, -108883463, "PM2.5", 91, "Unhealthy">>,
    <<26318646, -119390451, "NO2", 72, "Good">>, <<42243294, -93898771, "NO2", 25, "Good">>,
    <<31329457, -88538892, "NO2", 54, "Unhealthy">>, <<25738878, -86646728, "NO2", 25, "Unhealthy">>,
    <<45662091, -102952679, "NO2", 98, "Good">>, <<33254524, -112848593, "NO2", 23, "Good">>,
    <<39874457, -94019888, "PM2.5", 46, "Unhealthy">>, <<33486386, -67607646, "PM2.5", 88, "Moderate">>,
    <<29726201, -123138186, "NO2", 107, "Good">>, <<25654715, -72038105, "NO2", 59, "Moderate">>,
    <<36480781, -73688378, "NO2", 41, "Unhealthy">>, <<27490757, -81790640, "NO2", 114, "Moderate">>,
    <<33985012, -112279396, "PM2.5", 135, "Unhealthy">>, <<26272735, -122267251, "PM2.5", 44, "Moderate">>,
    <<27999550, -85532090, "PM2.5", 103, "Unhealthy">>, <<38897210, -97853107, "NO2", 146, "Moderate">>,
    <<41007085, -118355999, "NO2", 92, "Good">>, <<31337503, -115826851, "PM2.5", 72, "Good">>,
    <<43049054, -95554463, "PM2.5", 81, "Unhealthy">>, <<36691572, -113463157, "NO2", 46, "Unhealthy">>,
    <<47837493, -71498824, "PM2.5", 87, "Unhealthy">>, <<24486918, -71112281, "NO2", 66, "Moderate">>,
    <<30021789, -92093298, "PM2.5", 26, "Good">>, <<36149761, -120985674, "PM2.5", 37, "Unhealthy">>,
    <<35882059, -93111392, "NO2", 140, "Unhealthy">>, <<34578448, -112715705, "PM2.5", 84, "Unhealthy">>,
    <<48878733, -87307073, "NO2", 137, "Moderate">>, <<27025104, -111967555, "NO2", 10, "Moderate">>,
    <<37848038, -90870474, "PM2.5", 23, "Unhealthy">>, <<39777573, -111721377, "PM2.5", 89, "Unhealthy">>,
    <<36853902, -108848319, "NO2", 59, "Good">>, <<27307796, -70740175, "NO2", 67, "Unhealthy">>,
    <<44187424, -113956225, "PM2.5", 115, "Moderate">>, <<34589465, -97912570, "PM2.5", 30, "Moderate">>,
    <<34065532, -105320449, "PM2.5", 68, "Good">>, <<28755222, -98980415, "NO2", 51, "Good">>,
    <<35565701, -74279815, "PM2.5", 118, "Moderate">>, <<26447718, -87175597, "PM2.5", 28, "Unhealthy">>,
    <<28157777, -96832815, "PM2.5", 107, "Good">>, <<28115928, -124874989, "NO2", 72, "Good">>,
    <<31131230, -84597693, "NO2", 44, "Moderate">>, <<31417695, -68814857, "PM2.5", 85, "Good">>,
    <<25253558, -97346267, "PM2.5", 19, "Good">>, <<26002786, -114222153, "PM2.5", 65, "Unhealthy">>,
    <<26997165, -73363336, "PM2.5", 15, "Moderate">>, <<26049585, -86872357, "NO2", 71, "Unhealthy">>,
    <<40743149, -106777336, "NO2", 106, "Good">>, <<40792255, -107600170, "NO2", 23, "Good">>,
    <<35457138, -67089643, "PM2.5", 23, "Good">>, <<29328857, -109618376, "NO2", 22, "Unhealthy">>,
    <<33238177, -115850684, "NO2", 140, "Good">>, <<40696580, -92833068, "PM2.5", 39, "Good">>,
    <<26885716, -118791914, "PM2.5", 74, "Moderate">>, <<39120745, -83378494, "PM2.5", 72, "Moderate">>,
    <<36213296, -72490484, "PM2.5", 28, "Unhealthy">>, <<34589394, -108952548, "PM2.5", 90, "Unhealthy">>,
    <<39927834, -109806595, "NO2", 146, "Good">>, <<34692172, -124439158, "PM2.5", 43, "Unhealthy">>,
    <<24900703, -103585473, "PM2.5", 115, "Unhealthy">>, <<25045721, -103850213, "PM2.5", 96, "Good">>,
    <<41051667, -86317863, "NO2", 148, "Good">>, <<48345925, -81530299, "PM2.5", 46, "Moderate">>,
    <<46035405, -123562392, "NO2", 110, "Good">>, <<45601600, -77976540, "NO2", 45, "Unhealthy">>,
    <<26702390, -74414327, "NO2", 61, "Unhealthy">>, <<44414665, -98302413, "NO2", 63, "Good">>,
    <<24591610, -113798473, "NO2", 76, "Good">>, <<48172227, -108810751, "NO2", 142, "Good">>,
    <<47480928, -118310179, "NO2", 50, "Moderate">>, <<48063357, -109602951, "PM2.5", 116, "Unhealthy">>,
    <<42213626, -106806716, "PM2.5", 103, "Moderate">>, <<28751969, -122425582, "NO2", 5, "Unhealthy">>,
    <<47139379, -93769785, "PM2.5", 98, "Unhealthy">>, <<25749345, -86474215, "NO2", 85, "Moderate">>,
    <<45200381, -83254253, "NO2", 134, "Unhealthy">>, <<40672322, -106081392, "NO2", 146, "Moderate">>,
    <<28796002, -86434093, "NO2", 49, "Good">>, <<38227631, -101447641, "PM2.5", 82, "Unhealthy">>,
    <<29254567, -79425989, "NO2", 124, "Moderate">>, <<35053994, -112605319, "NO2", 48, "Moderate">>,
    <<26119888, -95103784, "NO2", 28, "Unhealthy">>, <<40819891, -111970842, "PM2.5", 42, "Good">>,
    <<25155342, -67931711, "PM2.5", 121, "Good">>, <<46153422, -91611088, "NO2", 131, "Moderate">>,
    <<30099610, -86948636, "PM2.5", 32, "Moderate">>, <<29471028, -78361629, "NO2", 17, "Moderate">>,
    <<30229956, -75796492, "NO2", 39, "Unhealthy">>, <<40689443, -67702238, "NO2", 118, "Moderate">>,
    <<44375162, -73262823, "NO2", 145, "Unhealthy">>, <<46430202, -81867985, "NO2", 120, "Moderate">>,
    <<42794419, -76287953, "NO2", 138, "Moderate">>, <<39668710, -109073349, "PM2.5", 78, "Moderate">>,
    <<30792877, -106456846, "PM2.5", 40, "Good">>, <<29781536, -84750911, "PM2.5", 21, "Good">>,
    <<34189984, -93528554, "NO2", 20, "Moderate">>, <<44822279, -102410345, "PM2.5", 102, "Good">>,
    <<24147402, -104597990, "NO2", 112, "Moderate">>, <<42687891, -93324327, "PM2.5", 129, "Unhealthy">>,
    <<30823382, -96832765, "NO2", 91, "Good">>, <<40978547, -101549634, "PM2.5", 124, "Unhealthy">>,
    <<48518049, -94020830, "NO2", 149, "Good">>, <<24677551, -87720521, "PM2.5", 123, "Unhealthy">>,
    <<25257115, -103011976, "PM2.5", 121, "Good">>, <<32437513, -73980881, "NO2", 112, "Moderate">>,
    <<44872772, -97722204, "PM2.5", 94, "Moderate">>, <<40253602, -79688484, "PM2.5", 12, "Good">>,
    <<28984017, -123817959, "PM2.5", 66, "Good">>, <<35839026, -118365413, "PM2.5", 124, "Good">>,
    <<30406092, -103604080, "PM2.5", 46, "Unhealthy">>, <<26702468, -123510652, "NO2", 101, "Moderate">>,
    <<47536764, -113496873, "PM2.5", 31, "Moderate">>, <<43312022, -75682993, "PM2.5", 149, "Unhealthy">>,
    <<32680094, -100154076, "NO2", 22, "Good">>, <<40188581, -124266176, "NO2", 130, "Unhealthy">>,
    <<34838085, -103993094, "NO2", 44, "Good">>, <<28403424, -94738689, "NO2", 142, "Moderate">>,
    <<35621844, -77107394, "NO2", 87, "Moderate">>, <<44768275, -119973552, "NO2", 67, "Good">>,
    <<38246241, -86245069, "NO2", 12, "Moderate">>, <<45273820, -114453289, "PM2.5", 95, "Moderate">>,
    <<32508471, -73941442, "NO2", 147, "Moderate">>, <<36915681, -113918728, "PM2.5", 109, "Good">>,
    <<37879405, -111061212, "NO2", 130, "Moderate">>, <<43823321, -119602906, "PM2.5", 108, "Moderate">>,
    <<30082629, -86490319, "NO2", 126, "Unhealthy">>, <<37273048, -100320779, "NO2", 95, "Unhealthy">>,
    <<35343631, -107215867, "PM2.5", 35, "Unhealthy">>, <<28814607, -118065826, "PM2.5", 54, "Unhealthy">>,
    <<42465116, -108963022, "NO2", 30, "Good">>, <<31406161, -104068898, "NO2", 8, "Good">>,
    <<37353377, -109089944, "PM2.5", 146, "Unhealthy">>, <<41435434, -117675790, "NO2", 31, "Moderate">>,
    <<38351605, -97774978, "NO2", 92, "Good">>, <<48137441, -110356254, "NO2", 34, "Good">>,
    <<34017686, -120703235, "PM2.5", 43, "Good">>, <<44278551, -69950713, "PM2.5", 68, "Good">>,
    <<37951825, -100861907, "PM2.5", 138, "Good">>, <<35262861, -99322182, "NO2", 83, "Moderate">>,
    <<39525683, -89641408, "PM2.5", 58, "Unhealthy">>, <<29275629, -86695169, "PM2.5", 66, "Unhealthy">>,
    <<37799806, -115921109, "NO2", 120, "Good">>, <<38845279, -108106962, "PM2.5", 78, "Unhealthy">>,
    <<31067959, -75142810, "PM2.5", 64, "Unhealthy">>, <<43695700, -88746636, "PM2.5", 113, "Moderate">>,
    <<37614059, -87437187, "NO2", 41, "Good">>, <<25490950, -79027544, "NO2", 117, "Good">>,
    <<35717449, -107362711, "NO2", 74, "Good">>, <<37499539, -99609986, "PM2.5", 115, "Unhealthy">>,
    <<32058039, -110478662, "PM2.5", 63, "Unhealthy">>, <<44898965, -91638452, "PM2.5", 73, "Unhealthy">>,
    <<25005791, -81136408, "NO2", 137, "Unhealthy">>, <<35055735, -108866919, "NO2", 130, "Unhealthy">>,
    <<35750259, -101315811, "NO2", 31, "Good">>, <<32245091, -84766927, "NO2", 107, "Good">>,
    <<24917428, -119892533, "NO2", 87, "Unhealthy">>, <<48254618, -101557847, "PM2.5", 143, "Good">>,
    <<34331189, -114120213, "NO2", 132, "Moderate">>, <<35051023, -122006518, "NO2", 145, "Unhealthy">>,
    <<47191819, -99589267, "NO2", 36, "Good">>, <<48328670, -89685444, "PM2.5", 45, "Good">>,
    <<37770975, -92969419, "PM2.5", 62, "Moderate">>, <<35536197, -118186964, "PM2.5", 132, "Good">>,
    <<31296539, -84086126, "NO2", 128, "Unhealthy">>, <<30093272, -93026626, "NO2", 53, "Moderate">>,
    <<36706022, -73999078, "PM2.5", 75, "Unhealthy">>, <<32496881, -79312391, "NO2", 5, "Moderate">>,
    <<42151274, -76426397, "NO2", 43, "Moderate">>, <<37464514, -104982812, "NO2", 121, "Moderate">>,
    <<45740042, -68115072, "PM2.5", 103, "Moderate">>, <<45400324, -101175045, "NO2", 126, "Good">>,
    <<46835754, -102888594, "PM2.5", 131, "Unhealthy">>, <<27156156, -69009492, "NO2", 30, "Good">>,
    <<26492792, -72194383, "PM2.5", 41, "Moderate">>, <<45773324, -68742506, "PM2.5", 125, "Moderate">>,
    <<32464030, -84823134, "PM2.5", 89, "Moderate">>, <<45483554, -102959455, "NO2", 129, "Unhealthy">>,
    <<24897477, -121031597, "NO2", 63, "Unhealthy">>, <<26259483, -68256412, "PM2.5", 118, "Unhealthy">>,
    <<41350029, -72601405, "PM2.5", 88, "Good">>, <<31334194, -103259217, "PM2.5", 67, "Good">>,
    <<34301293, -85455579, "PM2.5", 48, "Unhealthy">>, <<25974208, -74491304, "PM2.5", 132, "Good">>,
    <<27577943, -98253306, "NO2", 122, "Unhealthy">>, <<40671017, -72863306, "NO2", 78, "Moderate">>,
    <<37664953, -120716010, "NO2", 81, "Unhealthy">>, <<48050726, -84961817, "NO2", 82, "Unhealthy">>,
    <<48984339, -75506544, "PM2.5", 65, "Good">>, <<38298067, -91660909, "NO2", 10, "Moderate">>,
    <<33895143, -124530318, "PM2.5", 132, "Unhealthy">>, <<43393524, -111653134, "NO2", 61, "Moderate">>,
    <<28753299, -110463646, "PM2.5", 29, "Unhealthy">>, <<40158515, -107081893, "NO2", 13, "Unhealthy">>,
    <<33121530, -117378116, "NO2", 88, "Unhealthy">>, <<34387577, -113353902, "NO2", 140, "Unhealthy">>,
    <<46837174, -76832589, "NO2", 128, "Unhealthy">>, <<42663983, -105354516, "PM2.5", 124, "Moderate">>,
    <<27518925, -68942988, "NO2", 147, "Good">>, <<26257571, -102114676, "NO2", 142, "Moderate">>,
    <<35369650, -85975954, "NO2", 102, "Good">>, <<47507297, -118715927, "PM2.5", 125, "Unhealthy">>,
    <<39488671, -70296191, "NO2", 61, "Good">>, <<25580426, -77216390, "NO2", 109, "Unhealthy">>,
    <<27494425, -70116832, "NO2", 131, "Good">>, <<26429799, -73538961, "PM2.5", 104, "Good">>,
    <<33275287, -69935916, "NO2", 44, "Moderate">>, <<40373047, -76645802, "NO2", 76, "Moderate">>,
    <<41257016, -112398359, "NO2", 65, "Good">>, <<26483865, -85230545, "NO2", 20, "Moderate">>,
    <<30897036, -68844002, "NO2", 28, "Moderate">>, <<29302645, -87909411, "PM2.5", 17, "Unhealthy">>,
    <<30089222, -117696415, "PM2.5", 22, "Moderate">>, <<29178934, -112474822, "PM2.5", 89, "Unhealthy">>,
    <<43716093, -90433066, "NO2", 42, "Good">>, <<37505386, -78686199, "PM2.5", 11, "Good">>,
    <<24371508, -79180890, "PM2.5", 87, "Good">>, <<28356155, -121960857, "NO2", 139, "Good">>,
    <<42641631, -97377735, "NO2", 136, "Good">>, <<26726350, -95777356, "PM2.5", 138, "Unhealthy">>,
    <<35451063, -69086482, "PM2.5", 127, "Moderate">>, <<34656840, -118738214, "NO2", 23, "Moderate">>,
    <<32052795, -116396639, "PM2.5", 75, "Good">>, <<39826918, -93195327, "NO2", 102, "Unhealthy">>,
    <<37263920, -98684506, "NO2", 30, "Unhealthy">>, <<26860351, -87026649, "PM2.5", 115, "Unhealthy">>,
    <<46202275, -100998813, "NO2", 107, "Moderate">>, <<42240312, -106872196, "NO2", 70, "Moderate">>,
    <<47839812, -85164380, "NO2", 22, "Moderate">>, <<44794297, -119592655, "PM2.5", 100, "Good">>,
    <<37909268, -90985026, "NO2", 36, "Good">>, <<32839951, -86410250, "NO2", 18, "Moderate">>,
    <<39010252, -104604522, "PM2.5", 44, "Moderate">>, <<36054734, -75858059, "NO2", 147, "Unhealthy">>,
    <<26872132, -108843044, "PM2.5", 114, "Moderate">>, <<48363665, -77531243, "PM2.5", 73, "Unhealthy">>,
    <<28510401, -84243472, "NO2", 91, "Good">>, <<24152644, -74547964, "NO2", 22, "Moderate">>,
    <<42524226, -68635002, "PM2.5", 140, "Good">>, <<33404860, -98688545, "PM2.5", 99, "Good">>,
    <<42039899, -79943535, "PM2.5", 18, "Moderate">>, <<27935247, -89165386, "PM2.5", 74, "Good">>,
    <<40548467, -96831622, "NO2", 111, "Moderate">>, <<29389224, -95283915, "NO2", 115, "Moderate">>,
    <<31081161, -85647798, "NO2", 139, "Good">>, <<31710484, -112209931, "PM2.5", 6, "Unhealthy">>,
    <<31535484, -112748430, "PM2.5", 70, "Good">>, <<32203058, -124551666, "NO2", 49, "Moderate">>,
    <<33505186, -84187067, "NO2", 23, "Good">>, <<45544109, -122546469, "PM2.5", 122, "Moderate">>,
    <<45552750, -91605969, "NO2", 111, "Good">>, <<26879334, -123790320, "NO2", 48, "Moderate">>,
    <<35502422, -85002618, "NO2", 27, "Unhealthy">>, <<45112108, -110887645, "NO2", 139, "Moderate">>,
    <<33894167, -107004076, "NO2", 61, "Good">>, <<43477946, -120569997, "PM2.5", 140, "Moderate">>,
    <<28847592, -79978763, "NO2", 42, "Unhealthy">>, <<26570113, -110153844, "PM2.5", 44, "Good">>,
    <<25883831, -69825056, "NO2", 123, "Unhealthy">>, <<42996928, -98963496, "NO2", 85, "Unhealthy">>,
    <<34994070, -97802578, "NO2", 75, "Good">>, <<25404303, -95574461, "NO2", 123, "Unhealthy">>,
    <<24940181, -103613220, "NO2", 24, "Moderate">>, <<45606250, -75392985, "NO2", 123, "Unhealthy">>,
    <<37857909, -79074568, "PM2.5", 120, "Unhealthy">>, <<40295936, -106351448, "NO2", 133, "Unhealthy">>,
    <<47943058, -98869660, "NO2", 26, "Good">>, <<40153177, -122729757, "NO2", 117, "Unhealthy">>,
    <<37068700, -115792720, "NO2", 77, "Unhealthy">>, <<34219234, -105374706, "PM2.5", 90, "Moderate">>,
    <<32242268, -92638134, "NO2", 77, "Good">>, <<42093341, -86919283, "PM2.5", 90, "Moderate">>,
    <<38568487, -116797154, "NO2", 84, "Good">>, <<41461999, -102266437, "PM2.5", 84, "Unhealthy">>,
    <<33416982, -79083607, "PM2.5", 139, "Unhealthy">>, <<40150620, -100442431, "NO2", 9, "Good">>,
    <<31721651, -69832180, "NO2", 129, "Moderate">>, <<29663576, -117021210, "PM2.5", 80, "Good">>,
    <<36692242, -93693297, "PM2.5", 91, "Good">>, <<27276226, -103150248, "PM2.5", 51, "Unhealthy">>,
    <<43277445, -78075465, "PM2.5", 117, "Unhealthy">>, <<34271465, -85770951, "PM2.5", 118, "Good">>,
    <<31123198, -81584882, "NO2", 64, "Unhealthy">>, <<29979212, -68995396, "NO2", 54, "Unhealthy">>,
    <<40957670, -91915676, "NO2", 123, "Moderate">>, <<43453100, -95831412, "NO2", 46, "Moderate">>,
    <<44031480, -116972885, "NO2", 18, "Good">>, <<36014766, -103469698, "PM2.5", 137, "Unhealthy">>,
    <<31126575, -80739224, "NO2", 120, "Good">>, <<27683716, -99626592, "PM2.5", 120, "Unhealthy">>,
    <<47261798, -100935980, "NO2", 133, "Moderate">>, <<29894451, -67317530, "NO2", 62, "Moderate">>,
    <<31967121, -119253179, "NO2", 42, "Good">>, <<24957579, -71791023, "NO2", 40, "Good">>,
    <<35727753, -89309802, "PM2.5", 9, "Unhealthy">>, <<29391368, -116327863, "NO2", 33, "Moderate">>,
    <<29941005, -117932796, "PM2.5", 112, "Moderate">>, <<43847477, -98487411, "PM2.5", 132, "Unhealthy">>,
    <<37401344, -88346614, "PM2.5", 41, "Unhealthy">>, <<34730972, -89341045, "PM2.5", 111, "Moderate">>,
    <<40609282, -120034391, "NO2", 22, "Good">>, <<37602048, -79388085, "PM2.5", 104, "Unhealthy">>,
    <<25088360, -102560884, "NO2", 69, "Moderate">>, <<24406055, -79265840, "NO2", 66, "Unhealthy">>,
    <<40427610, -118987496, "NO2", 39, "Unhealthy">>, <<32807476, -105364260, "PM2.5", 123, "Good">>,
    <<35963279, -114427877, "PM2.5", 21, "Unhealthy">>, <<43404759, -98454585, "NO2", 56, "Unhealthy">>,
    <<43777730, -73624158, "NO2", 84, "Good">>, <<33955601, -77706448, "NO2", 69, "Unhealthy">>,
    <<42832272, -113916002, "NO2", 17, "Good">>, <<32298117, -117780450, "NO2", 116, "Unhealthy">>,
    <<42582692, -73111026, "NO2", 91, "Moderate">>, <<36405080, -96143644, "NO2", 26, "Good">>,
    <<34612491, -100024786, "PM2.5", 144, "Unhealthy">>, <<32030285, -120356004, "NO2", 83, "Moderate">>,
    <<39065540, -100285268, "NO2", 94, "Moderate">>, <<25058879, -74537844, "NO2", 116, "Moderate">>,
    <<39986732, -79094286, "PM2.5", 24, "Moderate">>, <<39937813, -103927955, "PM2.5", 12, "Unhealthy">>,
    <<45216732, -85670846, "NO2", 13, "Good">>, <<25680834, -79846109, "NO2", 97, "Good">>,
    <<47736677, -123121652, "PM2.5", 120, "Moderate">>, <<33300334, -80741101, "PM2.5", 140, "Moderate">>,
    <<33950851, -87325478, "PM2.5", 34, "Moderate">>, <<42391871, -96055451, "NO2", 148, "Good">>,
    <<30544416, -109903194, "NO2", 59, "Good">>, <<31139421, -71844224, "NO2", 56, "Unhealthy">>,
    <<27393210, -120704982, "PM2.5", 118, "Good">>, <<44262830, -68881449, "NO2", 93, "Good">>,
    <<25623476, -93554062, "NO2", 45, "Unhealthy">>, <<41739094, -84387284, "PM2.5", 97, "Unhealthy">>,
    <<29606040, -67862313, "PM2.5", 65, "Unhealthy">>, <<24657100, -92866757, "NO2", 124, "Moderate">>,
    <<27244280, -73713707, "PM2.5", 84, "Unhealthy">>, <<48989876, -83305560, "NO2", 109, "Moderate">>,
    <<25843767, -68601976, "PM2.5", 120, "Unhealthy">>, <<41002724, -105018143, "PM2.5", 38, "Moderate">>,
    <<36571594, -74643726, "PM2.5", 137, "Moderate">>, <<31603113, -115605917, "PM2.5", 93, "Good">>,
    <<46373147, -75935846, "NO2", 55, "Unhealthy">>, <<47908790, -109081841, "NO2", 141, "Unhealthy">>,
    <<36564328, -115219118, "PM2.5", 48, "Good">>, <<39611979, -72683949, "NO2", 149, "Unhealthy">>,
    <<44630906, -123354338, "PM2.5", 72, "Good">>, <<29270209, -91816043, "PM2.5", 132, "Unhealthy">>,
    <<37639437, -87769378, "NO2", 128, "Unhealthy">>, <<44117203, -85270532, "NO2", 121, "Good">>,
    <<41215339, -115831335, "NO2", 128, "Good">>, <<29100575, -89813705, "NO2", 86, "Moderate">>,
    <<48700584, -104968508, "NO2", 38, "Unhealthy">>, <<36874503, -118841332, "PM2.5", 124, "Moderate">>,
    <<30686791, -110620705, "PM2.5", 17, "Good">>, <<47634622, -74878497, "NO2", 68, "Moderate">>,
    <<44336946, -70842411, "NO2", 53, "Good">>, <<36456638, -95145960, "NO2", 83, "Good">>,
    <<24579407, -70176498, "NO2", 66, "Moderate">>, <<38583602, -122177829, "NO2", 131, "Good">>,
    <<46058486, -87052918, "NO2", 78, "Unhealthy">>, <<24204435, -118765170, "PM2.5", 72, "Unhealthy">>,
    <<33144440, -101611264, "PM2.5", 107, "Unhealthy">>, <<38257041, -113709993, "NO2", 23, "Good">>,
    <<36606388, -80664562, "NO2", 35, "Moderate">>, <<48377070, -102153585, "NO2", 147, "Good">>,
    <<42874129, -113454643, "NO2", 133, "Moderate">>, <<25132583, -117051891, "NO2", 126, "Good">>,
    <<35424713, -89836890, "PM2.5", 88, "Unhealthy">>, <<31963250, -102208634, "NO2", 91, "Unhealthy">>,
    <<44707234, -94124290, "NO2", 126, "Unhealthy">>, <<33208945, -85919230, "NO2", 83, "Good">>,
    <<45802477, -88502893, "NO2", 72, "Unhealthy">>, <<43572599, -79982603, "PM2.5", 18, "Unhealthy">>,
    <<36011219, -94594525, "NO2", 42, "Unhealthy">>, <<30054914, -91790925, "PM2.5", 53, "Unhealthy">>,
    <<35025964, -100710743, "NO2", 57, "Good">>, <<36545487, -89534273, "NO2", 20, "Moderate">>,
    <<27452062, -112974182, "NO2", 127, "Unhealthy">>, <<33420619, -69512242, "NO2", 141, "Unhealthy">>,
    <<37656830, -85799623, "NO2", 128, "Moderate">>, <<47933434, -108817630, "NO2", 62, "Good">>,
    <<43279356, -84115746, "NO2", 86, "Moderate">>, <<32720079, -70845379, "NO2", 78, "Moderate">>,
    <<38336920, -93494930, "NO2", 93, "Good">>, <<31261316, -108317441, "PM2.5", 93, "Good">>,
    <<40399301, -81654368, "PM2.5", 56, "Moderate">>, <<30778318, -92402955, "NO2", 40, "Unhealthy">>,
    <<39391925, -90963832, "PM2.5", 17, "Good">>, <<46629604, -111911045, "PM2.5", 18, "Unhealthy">>,
    <<34332534, -83393233, "PM2.5", 40, "Good">>, <<48112969, -68281179, "PM2.5", 109, "Good">>,
    <<47375802, -74052822, "NO2", 56, "Unhealthy">>, <<32029192, -87537921, "PM2.5", 64, "Moderate">>,
    <<42467163, -75680681, "PM2.5", 49, "Unhealthy">>, <<46056124, -114804255, "PM2.5", 106, "Moderate">>,
    <<28657790, -81557815, "NO2", 14, "Moderate">>, <<31459805, -90038589, "NO2", 77, "Good">>,
    <<48727486, -93488572, "NO2", 39, "Moderate">>, <<35700519, -113816939, "PM2.5", 89, "Unhealthy">>,
    <<42277980, -87399451, "PM2.5", 8, "Good">>, <<32427804, -107888594, "PM2.5", 49, "Unhealthy">>,
    <<45403662, -72971520, "NO2", 136, "Unhealthy">>, <<26168444, -86183161, "PM2.5", 40, "Moderate">>,
    <<32090041, -110613270, "NO2", 103, "Moderate">>, <<35168388, -109514330, "NO2", 82, "Good">>,
    <<42072063, -124336728, "NO2", 65, "Unhealthy">>, <<40694652, -98007091, "PM2.5", 108, "Good">>,
    <<36563011, -73083135, "NO2", 35, "Unhealthy">>, <<46903259, -107887820, "PM2.5", 61, "Unhealthy">>,
    <<35954547, -98611237, "NO2", 111, "Good">>, <<37730862, -97691972, "PM2.5", 68, "Unhealthy">>,
    <<42868488, -74358167, "PM2.5", 139, "Unhealthy">>, <<37204328, -104016478, "PM2.5", 20, "Moderate">>,
    <<46572204, -113274907, "PM2.5", 47, "Unhealthy">>, <<45362150, -99373248, "PM2.5", 130, "Moderate">>,
    <<46472233, -99162004, "PM2.5", 121, "Good">>, <<36831196, -98505689, "PM2.5", 148, "Good">>,
    <<40819192, -107126166, "PM2.5", 106, "Moderate">>, <<44411330, -81743340, "PM2.5", 16, "Moderate">>,
    <<32613221, -121301926, "PM2.5", 22, "Moderate">>, <<24793371, -101285718, "PM2.5", 112, "Moderate">>,
    <<48821414, -102816183, "NO2", 101, "Moderate">>, <<41068258, -86616033, "PM2.5", 94, "Good">>,
    <<28461840, -93839008, "PM2.5", 62, "Good">>, <<42904485, -68247541, "NO2", 144, "Good">>,
    <<37298340, -77245095, "PM2.5", 122, "Moderate">>, <<27878034, -114068134, "PM2.5", 13, "Moderate">>,
    <<34481014, -80568899, "PM2.5", 66, "Unhealthy">>, <<25682272, -90551240, "NO2", 17, "Good">>,
    <<42513526, -101668610, "PM2.5", 143, "Good">>, <<42859642, -79988310, "PM2.5", 133, "Good">>,
    <<29854037, -71848973, "NO2", 87, "Moderate">>, <<31544110, -116690895, "PM2.5", 110, "Good">>,
    <<30878848, -92710350, "PM2.5", 114, "Moderate">>, <<36390519, -68607167, "NO2", 139, "Unhealthy">>,
    <<41407710, -101320968, "NO2", 101, "Moderate">>, <<42860402, -97535909, "PM2.5", 81, "Good">>,
    <<27608793, -98144541, "PM2.5", 148, "Unhealthy">>, <<48194654, -92677369, "PM2.5", 104, "Moderate">>,
    <<30374891, -105844747, "PM2.5", 120, "Good">>, <<26311599, -82974087, "PM2.5", 18, "Moderate">>,
    <<33429199, -89911773, "PM2.5", 23, "Moderate">>, <<44116265, -90920147, "PM2.5", 127, "Good">>,
    <<45736846, -105688070, "PM2.5", 59, "Good">>, <<48051938, -118195661, "NO2", 67, "Good">>,
    <<39110038, -113138238, "PM2.5", 146, "Unhealthy">>, <<43387847, -102921619, "NO2", 83, "Moderate">>,
    <<32991115, -73796907, "NO2", 30, "Moderate">>, <<35737260, -76295592, "PM2.5", 99, "Unhealthy">>,
    <<34348254, -92373566, "PM2.5", 42, "Moderate">>, <<30519352, -70784022, "NO2", 80, "Good">>,
    <<28904794, -111658920, "PM2.5", 132, "Good">>, <<40365199, -85278897, "NO2", 130, "Unhealthy">>,
    <<40042361, -96545457, "PM2.5", 95, "Unhealthy">>, <<27498963, -93300313, "PM2.5", 143, "Good">>,
    <<47930922, -94611224, "PM2.5", 17, "Unhealthy">>, <<34309805, -76132407, "PM2.5", 22, "Good">>,
    <<27775741, -112314259, "NO2", 100, "Unhealthy">>, <<39445880, -86328226, "NO2", 129, "Good">>,
    <<24165308, -93004674, "PM2.5", 9, "Good">>, <<42054818, -93927191, "NO2", 9, "Unhealthy">>,
    <<44328930, -85906089, "PM2.5", 32, "Unhealthy">>, <<37109635, -111023808, "NO2", 95, "Good">>,
    <<43873408, -120416884, "NO2", 122, "Moderate">>, <<30080197, -84560294, "NO2", 25, "Unhealthy">>,
    <<48791867, -87306122, "PM2.5", 28, "Unhealthy">>, <<33481600, -92943317, "PM2.5", 7, "Moderate">>,
    <<28284589, -96008214, "NO2", 89, "Unhealthy">>, <<48433230, -68517295, "PM2.5", 63, "Unhealthy">>,
    <<46531823, -84847313, "NO2", 74, "Good">>, <<47103981, -85303133, "NO2", 144, "Good">>,
    <<40452731, -114597439, "NO2", 9, "Unhealthy">>, <<38675902, -81369241, "NO2", 24, "Good">>,
    <<28061256, -111052613, "NO2", 143, "Moderate">>, <<33596155, -82094781, "PM2.5", 133, "Moderate">>,
    <<48358083, -121885607, "NO2", 64, "Unhealthy">>, <<32514818, -80397673, "NO2", 88, "Good">>,
    <<39853073, -79554208, "NO2", 130, "Good">>, <<32895279, -70413715, "NO2", 52, "Good">>,
    <<38646878, -102955783, "NO2", 68, "Unhealthy">>, <<25837667, -109457623, "NO2", 44, "Unhealthy">>,
    <<33740549, -104079387, "PM2.5", 6, "Unhealthy">>, <<35118396, -80841904, "PM2.5", 38, "Moderate">>,
    <<28684794, -98967067, "NO2", 31, "Good">>, <<26240471, -92855252, "NO2", 103, "Good">>,
    <<31296183, -102507626, "PM2.5", 148, "Good">>, <<38299010, -115164191, "NO2", 48, "Good">>,
    <<30722974, -109432406, "PM2.5", 21, "Good">>, <<34866906, -100576065, "NO2", 24, "Good">>,
    <<30292493, -110697777, "NO2", 55, "Moderate">>, <<26674309, -107329837, "NO2", 90, "Moderate">>,
    <<33497248, -74992498, "NO2", 90, "Unhealthy">>, <<44386886, -75148509, "PM2.5", 81, "Moderate">>,
    <<39080281, -84673047, "NO2", 85, "Moderate">>, <<48114365, -68813938, "NO2", 130, "Good">>,
    <<43549359, -106098599, "NO2", 105, "Unhealthy">>, <<26847195, -92296671, "PM2.5", 145, "Moderate">>,
    <<47825115, -98225912, "PM2.5", 117, "Good">>, <<44782045, -120988798, "NO2", 132, "Moderate">>,
    <<39833400, -110962773, "PM2.5", 113, "Good">>, <<25849128, -67539365, "NO2", 107, "Moderate">>,
    <<36665316, -71617254, "NO2", 144, "Unhealthy">>, <<43768022, -104147290, "PM2.5", 32, "Good">>,
    <<40440041, -104409489, "PM2.5", 149, "Good">>, <<40936797, -101822171, "NO2", 115, "Unhealthy">>,
    <<24263694, -109993175, "PM2.5", 119, "Good">>, <<33778354, -80204151, "PM2.5", 93, "Moderate">>,
    <<36069277, -107864932, "PM2.5", 34, "Good">>, <<27541879, -106910361, "NO2", 57, "Unhealthy">>,
    <<36073149, -97382574, "NO2", 120, "Unhealthy">>, <<25679358, -122408383, "PM2.5", 10, "Moderate">>,
    <<40199247, -85725919, "PM2.5", 67, "Moderate">>, <<28361330, -115712129, "NO2", 123, "Unhealthy">>,
    <<43943894, -88473902, "PM2.5", 115, "Good">>, <<24729806, -89381798, "PM2.5", 120, "Moderate">>,
    <<34738821, -124741898, "PM2.5", 57, "Unhealthy">>, <<42808137, -78093673, "PM2.5", 31, "Moderate">>,
    <<28673995, -106092876, "NO2", 34, "Unhealthy">>, <<40767535, -96609930, "NO2", 104, "Moderate">>,
    <<33813600, -118374540, "NO2", 122, "Unhealthy">>, <<28313187, -85931846, "NO2", 26, "Unhealthy">>,
    <<27348694, -118164025, "NO2", 34, "Unhealthy">>, <<33332651, -116801205, "NO2", 112, "Good">>,
    <<27446682, -102744823, "PM2.5", 129, "Unhealthy">>, <<37434481, -71688663, "PM2.5", 147, "Unhealthy">>,
    <<36241050, -116862801, "NO2", 120, "Good">>, <<25340281, -104175729, "PM2.5", 129, "Unhealthy">>,
    <<28878212, -102731238, "NO2", 109, "Good">>, <<36293147, -83811743, "NO2", 130, "Unhealthy">>,
    <<26066765, -123210080, "PM2.5", 79, "Good">>, <<30871322, -93818701, "PM2.5", 122, "Good">>,
    <<42562956, -80576666, "PM2.5", 34, "Unhealthy">>, <<43377825, -77249598, "NO2", 143, "Moderate">>,
    <<43000103, -99400739, "PM2.5", 113, "Good">>, <<42399717, -87087042, "PM2.5", 81, "Good">>,
    <<35243308, -104782536, "PM2.5", 117, "Good">>, <<43390791, -111257129, "NO2", 114, "Good">>,
    <<39403779, -79478741, "PM2.5", 20, "Good">>, <<32770386, -108697069, "PM2.5", 87, "Unhealthy">>,
    <<31315867, -91781337, "PM2.5", 39, "Unhealthy">>, <<46969217, -67435799, "PM2.5", 38, "Moderate">>,
    <<27656086, -106318391, "PM2.5", 105, "Good">>, <<27554290, -88320686, "NO2", 101, "Moderate">>,
    <<25887906, -78913280, "PM2.5", 108, "Moderate">>, <<42745059, -84707191, "NO2", 121, "Unhealthy">>,
    <<32182232, -124856562, "PM2.5", 122, "Moderate">>, <<40603595, -104223082, "PM2.5", 141, "Unhealthy">>,
    <<29445748, -100080701, "PM2.5", 131, "Moderate">>, <<32071628, -108551602, "PM2.5", 149, "Moderate">>,
    <<43707591, -73139030, "PM2.5", 16, "Moderate">>, <<39654488, -76471274, "PM2.5", 36, "Good">>,
    <<35032148, -124960796, "NO2", 56, "Good">>, <<46735180, -73835430, "NO2", 45, "Unhealthy">>,
    <<26333499, -104094748, "PM2.5", 100, "Moderate">>, <<46595006, -115399546, "NO2", 83, "Unhealthy">>,
    <<41486034, -111419658, "PM2.5", 29, "Unhealthy">>, <<29335529, -120479555, "PM2.5", 137, "Good">>,
    <<35126671, -124532371, "NO2", 35, "Unhealthy">>, <<41350775, -97293386, "PM2.5", 103, "Moderate">>,
    <<42269084, -119059225, "NO2", 99, "Good">>, <<27428232, -80139292, "PM2.5", 41, "Moderate">>,
    <<37262706, -124508465, "PM2.5", 117, "Good">>, <<42060800, -88571358, "PM2.5", 110, "Moderate">>,
    <<41164154, -75122174, "PM2.5", 30, "Unhealthy">>, <<42811141, -90804713, "NO2", 94, "Good">>,
    <<31862591, -116889850, "NO2", 26, "Moderate">>, <<37834915, -90199544, "NO2", 11, "Good">>,
    <<45895679, -113084149, "PM2.5", 105, "Unhealthy">>, <<40154244, -79539508, "PM2.5", 131, "Moderate">>,
    <<26818591, -96024213, "PM2.5", 140, "Moderate">>, <<48672063, -70832385, "PM2.5", 104, "Good">>,
    <<34521588, -93311340, "PM2.5", 125, "Unhealthy">>, <<24417235, -121083111, "NO2", 60, "Good">>,
    <<47064482, -69976561, "NO2", 134, "Good">>, <<39714267, -95939161, "NO2", 113, "Moderate">>,
    <<34056935, -87848838, "PM2.5", 76, "Unhealthy">>, <<31747672, -95344328, "PM2.5", 44, "Good">>,
    <<32168757, -90986645, "PM2.5", 84, "Unhealthy">>, <<34937151, -69701178, "PM2.5", 19, "Unhealthy">>,
    <<26155319, -99799952, "NO2", 19, "Good">>, <<40651989, -86832964, "PM2.5", 35, "Moderate">>,
    <<41697515, -84313023, "PM2.5", 132, "Good">>, <<37075134, -79586749, "NO2", 47, "Moderate">>,
    <<27173265, -79694810, "NO2", 35, "Moderate">>, <<32375275, -100099175, "PM2.5", 72, "Good">>,
    <<48376264, -88603096, "NO2", 121, "Unhealthy">>, <<33003097, -96022620, "PM2.5", 99, "Unhealthy">>,
    <<30377902, -119031515, "PM2.5", 63, "Good">>, <<36720622, -122445802, "PM2.5", 67, "Unhealthy">>,
    <<35794114, -102787191, "PM2.5", 50, "Good">>, <<37821619, -71991036, "NO2", 62, "Good">>,
    <<30206579, -71880424, "NO2", 74, "Moderate">>, <<38288399, -118074747, "PM2.5", 50, "Good">>,
    <<44108450, -68077996, "NO2", 22, "Good">>, <<45650805, -80135407, "NO2", 88, "Moderate">>,
    <<37827284, -124537788, "PM2.5", 79, "Good">>, <<43612680, -82104593, "PM2.5", 123, "Unhealthy">>,
    <<38792273, -96385081, "PM2.5", 144, "Moderate">>, <<27764159, -70920944, "PM2.5", 64, "Good">>,
    <<32660592, -76304708, "PM2.5", 90, "Unhealthy">>, <<42973228, -103176060, "NO2", 31, "Good">>,
    <<37245362, -111186280, "NO2", 20, "Good">>, <<41791311, -119604455, "PM2.5", 138, "Good">>,
    <<41521172, -103395466, "PM2.5", 29, "Moderate">>, <<27337846, -77442153, "PM2.5", 150, "Unhealthy">>,
    <<34874571, -69075341, "PM2.5", 79, "Good">>, <<45272842, -71289567, "NO2", 88, "Moderate">>,
    <<35318946, -111450549, "PM2.5", 39, "Moderate">>, <<26724320, -118871851, "NO2", 124, "Unhealthy">>,
    <<34162813, -93916377, "PM2.5", 120, "Moderate">>, <<35583664, -75556034, "PM2.5", 45, "Moderate">>,
    <<31605374, -84127122, "PM2.5", 60, "Unhealthy">>, <<27708094, -83752871, "NO2", 106, "Moderate">>,
    <<25223765, -107667239, "PM2.5", 12, "Unhealthy">>, <<45365032, -92754682, "PM2.5", 29, "Moderate">>,
    <<26547683, -78959035, "PM2.5", 8, "Moderate">>, <<44759308, -68011101, "PM2.5", 55, "Good">>,
    <<33305993, -88442743, "PM2.5", 71, "Moderate">>, <<24545004, -121260622, "NO2", 37, "Good">>,
    <<46626949, -76897342, "NO2", 36, "Good">>, <<47557016, -122063014, "NO2", 106, "Good">>,
    <<24737057, -85373651, "PM2.5", 95, "Moderate">>, <<46707605, -109051058, "NO2", 43, "Good">>,
    <<39352664, -89215325, "NO2", 132, "Good">>, <<46069464, -97216207, "PM2.5", 76, "Moderate">>,
    <<27430900, -113431448, "PM2.5", 144, "Moderate">>, <<48735090, -79648886, "NO2", 127, "Good">>,
    <<43535877, -105046022, "NO2", 104, "Unhealthy">>, <<28495396, -106505102, "PM2.5", 12, "Moderate">>,
    <<25464780, -67491184, "NO2", 64, "Moderate">>, <<26503358, -86901864, "NO2", 141, "Good">>,
    <<25397716, -67209262, "PM2.5", 104, "Unhealthy">>, <<47380150, -67490569, "PM2.5", 50, "Moderate">>,
    <<38812987, -78239807, "NO2", 12, "Good">>, <<41514020, -70041594, "PM2.5", 149, "Unhealthy">>,
    <<44917421, -77996733, "NO2", 143, "Good">>, <<28388919, -122798104, "PM2.5", 64, "Moderate">>,
    <<29470223, -94465987, "PM2.5", 89, "Unhealthy">>, <<29036609, -117431607, "PM2.5", 87, "Unhealthy">>,
    <<24547822, -90976668, "PM2.5", 33, "Good">>, <<45516736, -69287593, "NO2", 106, "Unhealthy">>,
    <<26525804, -107497622, "PM2.5", 45, "Unhealthy">>, <<47717338, -79073134, "NO2", 86, "Unhealthy">>,
    <<41679573, -92405317, "NO2", 62, "Good">>, <<38723753, -114829606, "NO2", 80, "Unhealthy">>,
    <<28442707, -124895722, "NO2", 150, "Good">>, <<28552043, -106543420, "PM2.5", 149, "Good">>,
    <<47417194, -116842685, "PM2.5", 65, "Good">>, <<48559491, -115262530, "PM2.5", 90, "Moderate">>,
    <<24284890, -112838312, "PM2.5", 94, "Moderate">>, <<43675500, -83216012, "PM2.5", 103, "Moderate">>,
    <<42314612, -68792095, "NO2", 131, "Moderate">>, <<32780779, -103229841, "NO2", 62, "Moderate">>,
    <<35282185, -78646716, "PM2.5", 80, "Good">>, <<31967922, -69803597, "PM2.5", 92, "Good">>,
    <<46198281, -115667540, "PM2.5", 145, "Good">>, <<32448764, -67853987, "NO2", 12, "Good">>,
    <<47561056, -115430163, "NO2", 45, "Moderate">>, <<26531445, -113078073, "PM2.5", 109, "Good">>,
    <<37852810, -71316732, "NO2", 77, "Unhealthy">>, <<29938707, -122121145, "NO2", 44, "Moderate">>,
    <<33020723, -100198855, "NO2", 127, "Good">>, <<26424672, -112996727, "NO2", 25, "Good">>,
    <<45094226, -107115503, "NO2", 125, "Moderate">>, <<46371937, -109629745, "NO2", 52, "Moderate">>,
    <<46137317, -103574704, "NO2", 16, "Moderate">>, <<34993510, -109722754, "NO2", 149, "Moderate">>,
    <<27778266, -84604685, "PM2.5", 26, "Good">>, <<32594784, -93595958, "PM2.5", 146, "Unhealthy">>,
    <<45019929, -77532498, "NO2", 142, "Good">>, <<45672350, -97460186, "PM2.5", 126, "Unhealthy">>,
    <<25973876, -72638923, "PM2.5", 133, "Moderate">>, <<46511376, -78573881, "PM2.5", 35, "Unhealthy">>,
    <<28321974, -67906657, "PM2.5", 54, "Moderate">>, <<25066897, -120454626, "NO2", 56, "Good">>,
    <<27696956, -90487237, "NO2", 22, "Unhealthy">>, <<33702478, -101953411, "NO2", 75, "Good">>,
    <<35453929, -74338958, "NO2", 33, "Unhealthy">>, <<27741057, -92137553, "PM2.5", 32, "Moderate">>,
    <<43488617, -79426754, "NO2", 110, "Unhealthy">>, <<33576086, -96836083, "NO2", 14, "Moderate">>,
    <<30885353, -116656546, "NO2", 14, "Good">>, <<46239355, -105773344, "PM2.5", 17, "Moderate">>,
    <<35880454, -109422108, "NO2", 10, "Unhealthy">>, <<44434648, -107422813, "NO2", 130, "Moderate">>,
    <<41121300, -68595195, "PM2.5", 39, "Unhealthy">>, <<48355485, -99299585, "NO2", 73, "Moderate">>,
    <<34419318, -87557821, "PM2.5", 118, "Unhealthy">>, <<46835820, -101384120, "NO2", 137, "Good">>,
    <<44525434, -95114358, "PM2.5", 21, "Moderate">>, <<41739234, -101603662, "PM2.5", 49, "Moderate">>,
    <<45879513, -113357847, "PM2.5", 68, "Good">>, <<35411216, -71754198, "PM2.5", 75, "Good">>,
    <<44587657, -95702671, "PM2.5", 12, "Moderate">>, <<33311669, -90545472, "PM2.5", 126, "Good">>,
    <<37783343, -105033558, "NO2", 28, "Unhealthy">>, <<24686262, -122120240, "PM2.5", 61, "Moderate">>,
    <<29627801, -113009603, "NO2", 136, "Unhealthy">>, <<45615748, -68905976, "PM2.5", 126, "Good">>,
    <<40184288, -90133767, "PM2.5", 62, "Good">>, <<39208597, -70305712, "NO2", 113, "Moderate">>,
    <<45289654, -98378115, "PM2.5", 124, "Moderate">>, <<40929903, -77189973, "NO2", 31, "Moderate">>,
    <<36787842, -86583384, "NO2", 148, "Good">>, <<38844313, -108604742, "PM2.5", 128, "Unhealthy">>,
    <<32407091, -108963972, "NO2", 75, "Good">>, <<40402990, -69773108, "NO2", 53, "Moderate">>,
    <<36932339, -111062480, "PM2.5", 108, "Good">>, <<31989643, -116884089, "PM2.5", 132, "Unhealthy">>,
    <<30485656, -100723191, "NO2", 14, "Moderate">>, <<41701723, -91821539, "PM2.5", 92, "Unhealthy">>,
    <<41834232, -85193550, "NO2", 96, "Unhealthy">>, <<31504870, -115140774, "PM2.5", 80, "Unhealthy">>,
    <<35769521, -82026705, "PM2.5", 90, "Good">>, <<26232495, -104393564, "NO2", 112, "Unhealthy">>,
    <<33292060, -91036900, "NO2", 35, "Moderate">>, <<25341923, -88204989, "PM2.5", 125, "Moderate">>,
    <<36511934, -74685131, "NO2", 140, "Good">>, <<34327681, -74490750, "PM2.5", 40, "Moderate">>,
    <<32566747, -67742888, "NO2", 41, "Good">>, <<45559848, -114539308, "PM2.5", 129, "Moderate">>,
    <<39775819, -114744193, "PM2.5", 6, "Moderate">>, <<30838196, -80850790, "PM2.5", 45, "Moderate">>,
    <<43630272, -79774358, "PM2.5", 116, "Moderate">>, <<34735243, -100116524, "NO2", 103, "Unhealthy">>,
    <<24943132, -113433974, "NO2", 8, "Good">>, <<42921193, -94200041, "PM2.5", 6, "Moderate">>,
    <<42340081, -111876589, "NO2", 84, "Unhealthy">>, <<26567705, -95806485, "NO2", 47, "Good">>,
    <<44596095, -107704270, "NO2", 121, "Good">>, <<37007210, -94601177, "NO2", 39, "Unhealthy">>,
    <<48903472, -96569637, "PM2.5", 47, "Moderate">>, <<24478118, -111989361, "PM2.5", 59, "Moderate">>,
    <<24547831, -95731254, "PM2.5", 98, "Unhealthy">>, <<40263509, -122832922, "NO2", 141, "Unhealthy">>,
    <<25214674, -67308547, "PM2.5", 10, "Unhealthy">>, <<41243743, -100827018, "NO2", 36, "Good">>,
    <<30318457, -84291644, "PM2.5", 7, "Unhealthy">>, <<34521786, -119143169, "NO2", 40, "Moderate">>,
    <<44766318, -118914975, "PM2.5", 77, "Moderate">>, <<43619001, -96131135, "PM2.5", 72, "Good">>,
    <<48327993, -104240534, "NO2", 80, "Unhealthy">>, <<24985142, -96211427, "PM2.5", 128, "Good">>,
    <<29862631, -124260535, "PM2.5", 33, "Moderate">>, <<40725548, -116349620, "PM2.5", 135, "Unhealthy">>,
    <<42089090, -119125153, "NO2", 64, "Good">>, <<48716648, -107830714, "NO2", 17, "Moderate">>,
    <<44329460, -74299854, "NO2", 97, "Good">>, <<31817677, -82164669, "PM2.5", 16, "Unhealthy">>,
    <<45299968, -86525409, "PM2.5", 89, "Good">>, <<46363190, -69604829, "NO2", 28, "Moderate">>,
    <<44374107, -114393574, "NO2", 107, "Moderate">>, <<30795827, -102628502, "NO2", 112, "Moderate">>,
    <<46153097, -115326834, "PM2.5", 20, "Unhealthy">>, <<26592827, -72148848, "NO2", 150, "Good">>,
    <<34954070, -89543257, "NO2", 12, "Unhealthy">>, <<45998756, -82817840, "PM2.5", 128, "Unhealthy">>,
    <<26823436, -101145513, "PM2.5", 21, "Moderate">>, <<40374339, -124283108, "PM2.5", 91, "Moderate">>,
    <<37077579, -84366350, "PM2.5", 115, "Unhealthy">>, <<42166299, -97048079, "NO2", 43, "Unhealthy">>,
    <<46301547, -89450988, "PM2.5", 45, "Unhealthy">>, <<45221139, -75591474, "PM2.5", 24, "Unhealthy">>,
    <<32015845, -105808100, "NO2", 17, "Moderate">>, <<29567663, -87687596, "NO2", 65, "Unhealthy">>,
    <<35477364, -78526846, "NO2", 27, "Good">>, <<35176702, -118115003, "NO2", 9, "Moderate">>,
    <<34085991, -122921748, "PM2.5", 28, "Good">>, <<48079281, -88022789, "PM2.5", 121, "Unhealthy">>,
    <<33083561, -121852038, "PM2.5", 121, "Moderate">>, <<38003771, -89054038, "NO2", 98, "Moderate">>,
    <<35313311, -119348653, "PM2.5", 5, "Unhealthy">>, <<32878474, -88247652, "NO2", 145, "Moderate">>,
    <<33347259, -118833311, "PM2.5", 131, "Unhealthy">>, <<44545966, -81934369, "NO2", 32, "Good">>,
    <<39271294, -114122483, "NO2", 60, "Moderate">>, <<44613853, -113946432, "NO2", 32, "Moderate">>,
    <<25162509, -88272053, "PM2.5", 120, "Moderate">>, <<40461417, -69540962, "PM2.5", 132, "Moderate">>,
    <<37259108, -122182847, "NO2", 128, "Good">>, <<43527037, -72209474, "PM2.5", 37, "Unhealthy">>,
    <<33685139, -90168331, "NO2", 134, "Good">>, <<34466618, -89678366, "PM2.5", 75, "Moderate">>,
    <<48089838, -68711485, "NO2", 39, "Moderate">>, <<34318636, -84399172, "NO2", 145, "Good">>,
    <<41796858, -70740300, "PM2.5", 56, "Moderate">>, <<39604189, -108146390, "NO2", 38, "Good">>,
    <<40252159, -69417066, "NO2", 34, "Unhealthy">>, <<38057005, -91197237, "NO2", 141, "Moderate">>,
    <<45936930, -100501591, "PM2.5", 138, "Moderate">>, <<24631803, -116571051, "PM2.5", 56, "Good">>,
    <<42754625, -115665748, "NO2", 69, "Moderate">>, <<44984545, -84945499, "NO2", 57, "Good">>,
    <<24807659, -77786480, "PM2.5", 148, "Unhealthy">>, <<42560318, -92446308, "PM2.5", 135, "Good">>,
    <<31190966, -86459374, "NO2", 104, "Unhealthy">>, <<47917549, -68402283, "NO2", 146, "Moderate">>,
    <<24324130, -110422215, "NO2", 62, "Good">>, <<41615726, -87437322, "PM2.5", 54, "Unhealthy">>,
    <<35220373, -67959708, "PM2.5", 52, "Moderate">>, <<42376987, -118077479, "PM2.5", 114, "Good">>,
    <<37914965, -117456142, "NO2", 6, "Moderate">>, <<35658283, -70625322, "PM2.5", 44, "Moderate">>,
    <<38922008, -80127665, "NO2", 130, "Moderate">>, <<37754004, -120772914, "NO2", 139, "Unhealthy">>,
    <<47924692, -94804836, "PM2.5", 111, "Good">>, <<37425898, -119667158, "PM2.5", 59, "Unhealthy">>,
    <<32297087, -104073727, "PM2.5", 140, "Unhealthy">>, <<48915777, -77226073, "PM2.5", 34, "Moderate">>,
    <<32650182, -111059824, "PM2.5", 15, "Unhealthy">>, <<46141503, -102880389, "PM2.5", 103, "Unhealthy">>,
    <<37505932, -108595919, "NO2", 136, "Moderate">>, <<35138922, -122456604, "PM2.5", 87, "Unhealthy">>,
    <<26058636, -119434527, "PM2.5", 21, "Unhealthy">>, <<40758378, -80132229, "NO2", 31, "Good">>,
    <<37443855, -84240914, "NO2", 23, "Good">>, <<41151088, -123622330, "NO2", 14, "Unhealthy">>,
    <<25831200, -114676455, "NO2", 147, "Good">>, <<38374057, -111796554, "NO2", 109, "Good">>,
    <<35278141, -101542015, "NO2", 9, "Moderate">>, <<40832468, -93979607, "PM2.5", 16, "Moderate">>,
    <<45206280, -104253392, "PM2.5", 79, "Unhealthy">>, <<31533767, -119982698, "NO2", 102, "Unhealthy">>,
    <<44553059, -123212490, "PM2.5", 141, "Moderate">>, <<27409536, -102322432, "NO2", 41, "Good">>,
    <<40932226, -71978203, "NO2", 7, "Moderate">>, <<45869173, -116800316, "PM2.5", 6, "Unhealthy">>,
    <<38916372, -93845182, "PM2.5", 83, "Unhealthy">>, <<42707414, -72594311, "NO2", 59, "Good">>,
    <<46640700, -75615387, "PM2.5", 46, "Moderate">>, <<29519699, -76584595, "PM2.5", 34, "Good">>,
    <<40774447, -92097027, "PM2.5", 145, "Good">>, <<40116862, -120757615, "PM2.5", 69, "Moderate">>,
    <<28935439, -91325453, "NO2", 96, "Good">>, <<40782389, -111397095, "NO2", 22, "Good">>,
    <<31944648, -98862534, "NO2", 44, "Good">>, <<38171547, -78153414, "NO2", 48, "Unhealthy">>,
    <<31830369, -79431714, "NO2", 75, "Good">>, <<27357645, -82487578, "NO2", 123, "Moderate">>,
    <<32968540, -107282636, "PM2.5", 49, "Moderate">>, <<39165691, -76176007, "PM2.5", 142, "Unhealthy">>,
    <<30580866, -73592522, "PM2.5", 24, "Good">>, <<45239681, -88365664, "NO2", 59, "Good">>,
    <<37789849, -93478780, "NO2", 43, "Good">>, <<33812458, -73296623, "NO2", 39, "Moderate">>,
    <<36528079, -119747867, "NO2", 133, "Moderate">>, <<40566962, -75817054, "PM2.5", 136, "Good">>,
    <<35155511, -114609580, "PM2.5", 128, "Good">>, <<25010495, -80834603, "PM2.5", 21, "Moderate">>,
    <<33235879, -122517111, "PM2.5", 137, "Moderate">>, <<33702327, -71761688, "PM2.5", 15, "Moderate">>,
    <<32101777, -84183298, "NO2", 72, "Unhealthy">>, <<37608751, -114916711, "NO2", 98, "Unhealthy">>,
    <<40333413, -76542795, "NO2", 101, "Unhealthy">>, <<36909294, -104531916, "NO2", 129, "Good">>,
    <<46179298, -124617335, "PM2.5", 117, "Moderate">>, <<29749769, -95156607, "NO2", 59, "Good">>,
    <<28672641, -103991070, "PM2.5", 63, "Good">>, <<44279315, -83225172, "NO2", 127, "Moderate">>,
    <<29267598, -115647717, "NO2", 10, "Moderate">>, <<25078608, -91737783, "PM2.5", 39, "Good">>,
    <<36816070, -73333736, "PM2.5", 19, "Unhealthy">>, <<30456491, -114557823, "NO2", 149, "Good">>,
    <<24465500, -83266257, "NO2", 26, "Unhealthy">>, <<35230084, -67419003, "NO2", 48, "Good">>,
    <<44759089, -90151355, "PM2.5", 135, "Good">>, <<28193042, -85235713, "NO2", 22, "Moderate">>,
    <<33455283, -117331635, "PM2.5", 56, "Good">>, <<45489792, -95747148, "NO2", 43, "Unhealthy">>,
    <<26407464, -97399588, "PM2.5", 141, "Unhealthy">>, <<42809578, -119594982, "PM2.5", 143, "Unhealthy">>,
    <<46424223, -80057516, "NO2", 138, "Good">>, <<33259436, -122480580, "NO2", 63, "Moderate">>,
    <<43738889, -102888284, "PM2.5", 113, "Moderate">>, <<30362950, -80580185, "PM2.5", 77, "Good">>,
    <<45919157, -101298492, "PM2.5", 6, "Unhealthy">>, <<42591142, -124587384, "PM2.5", 138, "Unhealthy">>,
    <<33375747, -113085716, "NO2", 109, "Good">>, <<26664580, -100287848, "NO2", 71, "Moderate">>,
    <<34589038, -103792643, "NO2", 106, "Unhealthy">>, <<34330703, -79540272, "NO2", 50, "Good">>,
    <<37977345, -96941911, "NO2", 93, "Moderate">>, <<33953243, -116992026, "PM2.5", 63, "Unhealthy">>,
    <<43577731, -69943780, "PM2.5", 59, "Moderate">>, <<34014022, -105370605, "PM2.5", 46, "Unhealthy">>,
    <<48114256, -124693144, "PM2.5", 42, "Moderate">>, <<47146544, -99748109, "PM2.5", 72, "Moderate">>,
    <<33270878, -89676327, "NO2", 107, "Good">>, <<40404380, -108384785, "PM2.5", 49, "Unhealthy">>,
    <<36359209, -124378797, "NO2", 54, "Unhealthy">>, <<43598986, -95388225, "PM2.5", 48, "Good">>,
    <<24901528, -111123116, "PM2.5", 45, "Unhealthy">>, <<48920428, -79778974, "NO2", 106, "Good">>,
    <<38652004, -94970924, "PM2.5", 28, "Moderate">>, <<31112344, -76873642, "NO2", 93, "Unhealthy">>,
    <<29657387, -69142686, "NO2", 108, "Moderate">>, <<24116286, -114847983, "PM2.5", 148, "Unhealthy">>,
    <<36579229, -105281979, "PM2.5", 136, "Good">>, <<45902826, -77837454, "NO2", 118, "Moderate">>,
    <<38079215, -80341903, "NO2", 122, "Moderate">>, <<35518011, -90964063, "PM2.5", 128, "Unhealthy">>,
    <<30445494, -102804952, "PM2.5", 63, "Good">>, <<34310649, -104520417, "PM2.5", 72, "Moderate">>,
    <<31182239, -101862024, "NO2", 24, "Good">>, <<47284905, -97359784, "NO2", 60, "Unhealthy">>,
    <<30726894, -70067150, "PM2.5", 132, "Unhealthy">>, <<28991663, -82345115, "NO2", 57, "Unhealthy">>,
    <<29069163, -110517665, "NO2", 44, "Good">>, <<26996962, -120447721, "NO2", 6, "Good">>,
    <<47949827, -75815386, "NO2", 85, "Unhealthy">>, <<46453030, -73902740, "NO2", 130, "Moderate">>,
    <<48609867, -71871604, "NO2", 106, "Good">>, <<42754234, -117561735, "NO2", 127, "Good">>,
    <<24814066, -104857241, "PM2.5", 122, "Unhealthy">>, <<41456114, -98315906, "PM2.5", 8, "Good">>,
    <<29268809, -91301524, "NO2", 97, "Unhealthy">>, <<45546050, -114145159, "NO2", 65, "Unhealthy">>,
    <<35783634, -89441126, "NO2", 52, "Moderate">>, <<34598572, -100692610, "NO2", 98, "Moderate">>,
    <<30990738, -114566425, "PM2.5", 63, "Moderate">>, <<42020386, -78362921, "NO2", 102, "Good">>,
    <<27646093, -69369421, "PM2.5", 126, "Good">>, <<28415181, -96023327, "NO2", 129, "Good">>,
    <<30274350, -75206886, "PM2.5", 106, "Moderate">>, <<41263579, -121517891, "NO2", 126, "Good">>,
    <<26407547, -81813594, "NO2", 97, "Unhealthy">>, <<38008750, -70953015, "NO2", 93, "Moderate">>,
    <<34294022, -104636752, "PM2.5", 142, "Good">>, <<48484328, -108492694, "NO2", 135, "Good">>,
    <<43368609, -99078054, "PM2.5", 102, "Moderate">>, <<31163089, -88360693, "PM2.5", 47, "Unhealthy">>,
    <<44192928, -105431479, "NO2", 23, "Unhealthy">>, <<28049987, -111763360, "NO2", 79, "Good">>,
    <<30686809, -87610631, "NO2", 118, "Unhealthy">>, <<42697387, -94785730, "NO2", 110, "Moderate">>,
    <<28597154, -123660137, "PM2.5", 69, "Good">>, <<41517423, -120356246, "PM2.5", 106, "Unhealthy">>,
    <<26388842, -70665968, "NO2", 145, "Good">>, <<24659122, -101973274, "PM2.5", 31, "Good">>,
    <<39452554, -120109947, "NO2", 84, "Moderate">>, <<30184912, -108517834, "PM2.5", 38, "Good">>,
    <<44962944, -123342866, "NO2", 88, "Unhealthy">>, <<35679836, -74487901, "NO2", 145, "Moderate">>,
    <<27377872, -69987805, "PM2.5", 121, "Moderate">>, <<42722790, -74116965, "NO2", 139, "Unhealthy">>,
    <<39988206, -107039643, "NO2", 128, "Unhealthy">>, <<29678211, -119805867, "NO2", 98, "Unhealthy">>,
    <<30495176, -107392771, "PM2.5", 138, "Moderate">>, <<32597122, -97786519, "PM2.5", 130, "Good">>,
    <<31490262, -80579587, "NO2", 64, "Moderate">>, <<37705304, -114062884, "NO2", 106, "Good">>,
    <<28081737, -82247165, "NO2", 101, "Good">>, <<30574506, -100510116, "PM2.5", 137, "Good">>,
    <<44189373, -85290864, "NO2", 141, "Unhealthy">>, <<34322596, -75498043, "PM2.5", 39, "Moderate">>,
    <<26758908, -98590106, "NO2", 74, "Moderate">>, <<39568844, -114108213, "PM2.5", 43, "Unhealthy">>,
    <<48242905, -123716409, "PM2.5", 77, "Good">>, <<27125980, -99571836, "PM2.5", 64, "Moderate">>,
    <<27767092, -96372386, "NO2", 112, "Good">>, <<43643133, -96093047, "NO2", 123, "Moderate">>,
    <<43785617, -105845579, "PM2.5", 19, "Unhealthy">>, <<43391322, -120859688, "NO2", 51, "Moderate">>,
    <<46392474, -110495391, "NO2", 8, "Good">>, <<48364962, -83548414, "NO2", 118, "Good">>,
    <<42440475, -123056404, "NO2", 29, "Good">>, <<40650197, -112910067, "NO2", 84, "Unhealthy">>,
    <<27965285, -82762250, "PM2.5", 69, "Moderate">>, <<39963000, -113474030, "PM2.5", 60, "Moderate">>,
    <<29899145, -99818625, "PM2.5", 47, "Good">>, <<38617421, -102043119, "PM2.5", 7, "Moderate">>,
    <<38526925, -84936418, "PM2.5", 100, "Good">>, <<30218056, -96004687, "NO2", 20, "Good">>,
    <<32887941, -116072731, "PM2.5", 37, "Good">>, <<29816865, -68062809, "NO2", 117, "Moderate">>,
    <<28824132, -85023502, "NO2", 39, "Unhealthy">>, <<46466576, -96852477, "NO2", 148, "Moderate">>,
    <<37568351, -96574665, "PM2.5", 144, "Moderate">>, <<32092021, -97833107, "PM2.5", 22, "Moderate">>,
    <<27875636, -107850986, "NO2", 143, "Unhealthy">>, <<35351974, -79996762, "NO2", 52, "Moderate">>,
    <<39493365, -103883639, "PM2.5", 87, "Good">>, <<25583543, -68904537, "NO2", 53, "Unhealthy">>,
    <<41080604, -80587423, "PM2.5", 77, "Unhealthy">>, <<34245113, -106322605, "PM2.5", 138, "Moderate">>,
    <<25666996, -76558786, "PM2.5", 50, "Unhealthy">>, <<29051975, -96848524, "PM2.5", 13, "Good">>,
    <<40043791, -102461269, "NO2", 139, "Unhealthy">>, <<41532850, -110155566, "NO2", 61, "Unhealthy">>,
    <<41946129, -124241006, "PM2.5", 130, "Unhealthy">>, <<35701478, -87942831, "NO2", 147, "Good">>,
    <<47456096, -100874715, "NO2", 19, "Unhealthy">>, <<30645390, -122642118, "PM2.5", 82, "Unhealthy">>,
    <<47615087, -69285969, "PM2.5", 30, "Good">>, <<29775450, -102650797, "PM2.5", 139, "Unhealthy">>,
    <<30219075, -88731147, "PM2.5", 147, "Unhealthy">>, <<37953540, -81725715, "NO2", 122, "Unhealthy">>
>>

\* _mock_aqi_data(n): the first n rows of the seeded stream
_mock_aqi_data(n) ==
    [i \in 1 .. n |->
        [latitude |-> Some(MockDraws[i][1]),
         longitude |-> Some(MockDraws[i][2]),
         parameter |-> Some(MockDraws[i][3]),
         unit |-> Some("UG/M3"),
         aqi |-> Some(MockDraws[i][4]),
         category |-> Some(MockDraws[i][5]),
         color |-> CASE MockDraws[i][5] = "Good" -> "green"
                     [] MockDraws[i][5] = "Moderate" -> "yellow"
                     [] MockDraws[i][5] = "Unhealthy" -> "red",
         region |-> "USA",
         utc |-> Some("2025-10-04T12:00")]]

\* the default call _mock_aqi_data()
MockTable == _mock_aqi_data(MockN)


(***************************************************************************)
(*            predict_aqi.py : fetch_past_week_data (Historical Fetcher)   *)
(***************************************************************************)

\* Model bounds: the calendar days tried for today, and the seeded random
\* streams tried (the values a stream delivers are not computed here, so
\* several are tried).
NumTodays == 3
NumStreams == 2

\* datetime.timedelta(days=7)
DaysBack == 7
\* np.random.uniform(25, 49, 700)
NumLocations == 700
\* np.clip(aqi, 10, 300)
ClipLo == 10
ClipHi == 300

\* values a draw of np.random.normal can take, in and out of [10, 300]
RawDraws == <<-12, 9, 10, 11, 70, 163, 299, 300, 301, 345>>

\* the k-th value of np.random.normal under stream s
NormalDraw(s, k) == RawDraws[((k * (2 * s + 1) + s) % Len(RawDraws)) + 1]

\* a slip: only the upper bound is applied
ClipUpperOnly(x, lo, hi) == IF x > hi THEN hi ELSE x

\* np.clip(x, lo, hi)
Clip(x, lo, hi) == IF x < lo THEN lo ELSE IF x > hi THEN hi ELSE x

\* pd.date_range(start, end): every day from start to end, both included
date_range(start, end) == [i \in 1 .. (end - start + 1) |-> start + i - 1]

\* lines 39-41: the frame of day d, the n-th of the loop; location i stands
\* for the i-th pair (lat[i], lon[i]) of the seeded uniform draws
DayFrame(d, n, s) ==
    [i \in 1 .. NumLocations |->
        [date |-> d, latitude |-> i, longitude |-> i,
         aqi |-> Clip(NormalDraw(s, (n - 1) * NumLocations + i), ClipLo, ClipHi)]]


(***************************************************************************)
(*        predict_aqi.py : train_weekly_predictor and predict_tomorrow     *)
(***************************************************************************)

\* Model bounds of the historical tables tried: locations with a full
\* history, the days of that history, and extra locations with 2 samples.
MaxLocs == 25
MaxDays == 7
MaxShort == 2

\* if df_week is None or len(df_week) < 100
MinWeekRows == 100
\* if len(grouped) < 50   /   len(df_week) < 50
MinLagRows == 50
\* for lag in range(1, 4)   /   .tail(3)
NumLags == 3
\* np.random.uniform(25, 49, 3000)
NumSynthetic == 3000

\* the numbers of fully sampled locations tried
LocCounts == {MaxLocs - k : k \in {0, 5, 8, 10, 11, 18}}

\* the AQI sample of location loc on day d, within [10, 300]
SampleAqi(loc, d) == 10 + 5 * ((17 * loc + 31 * d) % 59)

HistRow(loc, d) == [date |-> d, latitude |-> loc, longitude |-> loc, aqi |-> SampleAqi(loc, d)]

Reverse(s) == [i \in DOMAIN s |-> s[Len(s) + 1 - i]]

\* A historical table in the order pd.concat gives it (day by day, the
\* locations within a day): n1 locations sampled on days 1..d1 and n2 more
\* sampled on days 1..2 only; rev gives the same rows latest day first.
WeekTable(n1, d1, n2, rev) ==
    LET has(loc, d) == IF loc <= n1 THEN d <= d1 ELSE d <= 2
        dmax == IF n2 > 0 /\ d1 < 2 THEN 2 ELSE d1
        day(d) == LET locs == SelectSeq([l \in 1 .. (n1 + n2) |-> l], LAMBDA l : has(l, d))
                  IN  [k \in DOMAIN locs |-> HistRow(locs[k], d)]
        t == Flatten([d \in 1 .. dmax |-> day(d)])
    IN  IF rev THEN Reverse(t) ELSE t

\* The model object: None, LinearRegression() not fitted, or fitted, with
\* the coefficients and intercept the fit produced.
NoModel == [kind |-> "None"]
Unfitted == [kind |-> "LinearRegression", fitted |-> FALSE]
Fitted(coef, intercept) ==
    [kind |-> "LinearRegression", fitted |-> TRUE, coef |-> coef, intercept |-> intercept]

\* results LinearRegression.fit can produce (the least-squares solution is
\* not computed here): persistence, an overshooting and a negative model
FitResults == { Fitted(<<1, 0, 0>>, 0), Fitted(<<2, 2, 2>>, 0), Fitted(<<0, 0, -1>>, 5) }

\* the (latitude, longitude) keys of groupby, in ascending order
LocKey(r) == <<r.latitude, r.longitude>>

KeyLess(a, b) == a[1] < b[1] \/ (a[1] = b[1] /\ a[2] < b[2])

RECURSIVE SortedKeys(_)
SortedKeys(S) ==
    IF S = {} THEN <<>>
    ELSE LET k == CHOOSE x \in S : \A y \in S \ {x} : KeyLess(x, y)
         IN  <<k>> \o SortedKeys(S \ {k})

GroupKeys(df) == SortedKeys({LocKey(df[i]) : i \in DOMAIN df})

\* the rows of one group, in the order of the table
GroupRows(df, key) == SelectSeq(df, LAMBDA r : LocKey(r) = key)

\* group.sort_values("date")
SortByDate(rows) ==
    LET rank(i) == 1 + Cardinality({j \in DOMAIN rows :
                        \/ rows[j].date < rows[i].date
                        \/ (rows[j].date = rows[i].date /\ j < i)})
    IN  [r \in DOMAIN rows |-> rows[CHOOSE i \in DOMAIN rows : rank(i) = r]]

\* make_features (lines 97-101): group["aqi"].shift(lag) for lag = 1, 2, 3
make_features(group) ==
    LET g == SortByDate(group)
        shift(i, lag) == IF i - lag >= 1 THEN Some(g[i - lag].aqi) ELSE None
    IN  [i \in DOMAIN g |->
            [date |-> g[i].date, latitude |-> g[i].latitude, longitude |-> g[i].longitude,
             aqi |-> g[i].aqi,
             lag1 |-> shift(i, 1), lag2 |-> shift(i, 2), lag3 |-> shift(i, NumLags)]]

\* a slip: only the first lag is required
DropNaLag1(rows) == SelectSeq(rows, LAMBDA r : r.lag1 # None)

\* .dropna() on the lagged frame (the other columns hold values)
DropNaLags(rows) ==
    SelectSeq(rows, LAMBDA r : r.lag1 # None /\ r.lag2 # None /\ r.lag3 # None)

\* line 103: df.groupby(["latitude", "longitude"]).apply(make_features).dropna()
Grouped(df) ==
    LET keys == GroupKeys(df)
    IN  DropNaLags(Flatten([k \in DOMAIN keys |-> make_features(GroupRows(df, keys[k]))]))

\* train_weekly_predictor: the models it can return for the table df
\* (None, or <<rows>>)
train_weekly_predictor(df) ==
    IF df = None \/ Len(df[1]) < MinWeekRows
    THEN {Unfitted}
    ELSE IF Len(Grouped(df[1])) < MinLagRows
         THEN {Unfitted}
         ELSE FitResults

\* LinearRegression.predict for one feature vector
Predict(m, lags) ==
    m.intercept + m.coef[1] * lags[1] + m.coef[2] * lags[2] + m.coef[3] * lags[3]

LastN(s, n) == IF Len(s) <= n THEN s ELSE SubSeq(s, Len(s) - n + 1, Len(s))

\* lines 127-133: the synthetic predictions; row i holds the i-th draws of
\* the stream of np.random.seed(10)
SyntheticPredictions ==
    [i \in 1 .. NumSynthetic |->
        [latitude |-> i, longitude |-> i,
         aqi_pred |-> Clip(NormalDraw(0, i), ClipLo, ClipHi)]]

\* lines 136-138: per location the AQI list of its last 3 rows, the
\* locations with exactly 3 kept
Pivot(df) ==
    LET keys == GroupKeys(df)
        all  == [k \in DOMAIN keys |->
                    LET last == LastN(GroupRows(df, keys[k]), NumLags)
                    IN  [latitude |-> keys[k][1], longitude |-> keys[k][2],
                         aqi |-> [i \in DOMAIN last |-> last[i].aqi]]]
    IN  SelectSeq(all, LAMBDA p : Len(p.aqi) = 3)

\* predict_tomorrow(df_week, model): a table, or the exception that leaves
\* the function
predict_tomorrow(df, mdl) ==
    IF mdl = NoModel \/ df = None \/ Len(df[1]) < MinLagRows
    THEN [kind |-> "table", synthetic |-> TRUE, rows |-> SyntheticPredictions]
    ELSE LET pivot == Pivot(df[1]) IN
         IF ~mdl.fitted
         THEN [kind |-> "raise", exc |-> "NotFittedError"]    \* model.predict, line 142
         ELSE IF pivot = <<>>
         THEN [kind |-> "raise", exc |-> "ValueError"]        \* predict on 0 samples
         ELSE [kind |-> "table", synthetic |-> FALSE,
               rows |-> [k \in DOMAIN pivot |->
                   [latitude |-> pivot[k].latitude, longitude |-> pivot[k].longitude,
                    aqi_pred |-> Clip(Predict(mdl, <<pivot[k].aqi[3], pivot[k].aqi[2],
                                                    pivot[k].aqi[1]>>), ClipLo, ClipHi)]]]

(***************************************************************************)
(*                  map_builder.py : the Map Renderer                      *)
(***************************************************************************)

\* Model bound: the largest input table tried.
MaxRows == 5

\* get_aqi_color
get_aqi_color(aqi) ==
    IF aqi <= 50 THEN "green"
    ELSE IF aqi <= 100 THEN "yellow"
    ELSE IF aqi <= 150 THEN "orange"
    ELSE IF aqi <= 200 THEN "red"
    ELSE IF aqi <= 300 THEN "purple"
    ELSE "maroon"

\* input tables of n rows, with values in every colour bucket
AqiTable(n) == [i \in 1 .. n |-> [latitude |-> 30 + i, longitude |-> -100 - i, aqi |-> 70 * i - 40]]
AodTable(n) == [i \in 1 .. n |-> [latitude |-> 30 + i, longitude |-> -100 - i, aod |-> i]]
PredTable(n) == [i \in 1 .. n |-> [latitude |-> 30 + i, longitude |-> -100 - i, aqi_pred |-> 60 * i]]

\* the values an optional table argument takes: None, or <<rows>>
AqiInputs == {None} \cup {Some(AqiTable(n)) : n \in 0 .. MaxRows}
AodInputs == {None} \cup {Some(AodTable(n)) : n \in 0 .. MaxRows}
PredInputs == {None} \cup {Some(PredTable(n)) : n \in 0 .. MaxRows}

\* the selector values: the three named ones and one that is none of them
Selectors == {"both", "current", "predicted", "none"}

\* a slip: the selector is not consulted
ShowsAqiAlways(df, sel) == df # None /\ Len(df[1]) > 0

\* line 17
ShowsAqi(df, sel) == df # None /\ Len(df[1]) > 0 /\ sel \in {"both", "current"}

\* line 35
ShowsAod(df) == df # None /\ Len(df[1]) > 0

\* line 45
ShowsPred(df, sel) == df # None /\ Len(df[1]) > 0 /\ sel \in {"both", "predicted"}

\* lines 18-32: the feature group of the observation markers
AqiLayer(df) ==
    [name |-> "Current AQI Levels",
     items |-> [i \in DOMAIN df |->
                  [location |-> <<df[i].latitude, df[i].longitude>>,
                   color |-> get_aqi_color(df[i].aqi), fill_opacity |-> 85]]]

\* lines 36-42: the feature group holding the heat map
AodLayer(df) ==
    [name |-> "AOD (MERRA-2)",
     items |-> << [heat_data |-> [i \in DOMAIN df |->
                                   <<df[i].latitude, df[i].longitude, df[i].aod>>]] >>]

\* lines 46-57: the feature group of the prediction markers
PredLayer(df) ==
    [name |-> "Predicted AQI (Tomorrow)",
     items |-> [i \in DOMAIN df |->
                  [location |-> <<df[i].latitude, df[i].longitude>>,
                   color |-> get_aqi_color(df[i].aqi_pred), fill_opacity |-> 75]]]

(***************************************************************************)
(*                       main.py : the Orchestrator                        *)
(***************************************************************************)

\* the names predict_aqi.py defines
PredictAqiNames ==
    {"fetch_past_week_data", "train_predictor", "train_weekly_predictor", "predict_tomorrow"}

\* if df_aqi is None or len(df_aqi) < 10   (train_predictor)
MinPointRows == 10

\* what fetch_past_week_data can hand to main: a table, no table, an empty
\* table, or an exception
FetchOutcomes ==
    { [kind |-> "raise"], [kind |-> "value", df |-> None], [kind |-> "value", df |-> Some(<<>>)],
      [kind |-> "value", df |-> Some(WeekTable(3, 2, 0, FALSE))],
      [kind |-> "value", df |-> Some(WeekTable(4, 3, 0, FALSE))] }

\* what load_aod_data can hand to main
AodOutcomes ==
    { [kind |-> "raise"], [kind |-> "value", df |-> Some(<<>>)],
      [kind |-> "value", df |-> Some(AodTable(2))] }

\* train_predictor (lines 53-77): the tuple it returns, the fit itself and
\* the feature frames left opaque; any of its library calls may raise
train_predictor(df) ==
    { [kind |-> "raise"] } \cup
    IF df = None \/ Len(df[1]) < MinPointRows
    THEN { [kind |-> "value", tuple |-> <<Unfitted, None, None>>] }
    ELSE { [kind |-> "value", tuple |-> <<Fitted(<<1, 1>>, 70), Some("X"), Some("y")>>] }

\* the call of line 44, predict_tomorrow(model, df_aqi): the tuple returned
\* by train_predictor is bound to df_week and the table to model
PredictCall(tuple, df) ==
    { [kind |-> "raise"],
      [kind |-> "value", result |-> predict_tomorrow(Some(tuple), [kind |-> "DataFrame", df |-> df])] }

\* The state when component comp is called (the other components stay idle).
Boot(comp) ==
    /\ pcF = IF comp = "fetch" THEN "call" ELSE "idle"
    /\ use_mock \in IF comp = "fetch" THEN BOOLEAN ELSE {FALSE}
    /\ submitted = 0 /\ started = 0
    /\ running = {} /\ finished = {} /\ collected = {}
    /\ resp = [c \in COORDS |-> None]
    /\ reqCount = [c \in COORDS |-> 0]
    /\ all_data = <<>>
    /\ resultF = None
    /\ pcW = IF comp = "week" THEN "call" ELSE "idle"
    /\ today \in IF comp = "week" THEN 1 .. NumTodays ELSE {0}
    /\ use_mock_w \in IF comp = "week" THEN BOOLEAN ELSE {TRUE}
    /\ force_refresh \in IF comp = "week" THEN BOOLEAN ELSE {FALSE}
    /\ stream \in IF comp = "week" THEN 1 .. NumStreams ELSE {0}
    /\ daysLeft = <<>> /\ data = <<>> /\ resultW = None
    /\ pcP = IF comp = "pred" THEN "call" ELSE "idle"
    /\ df_week \in IF comp = "pred"
                    THEN {None, Some(<<>>)} \cup {Some(WeekTable(n1, d1, n2, rev)) :
                                                    n1 \in LocCounts, d1 \in 1 .. MaxDays,
                                                    n2 \in 0 .. MaxShort, rev \in BOOLEAN}
                    ELSE {None}
    /\ model \in IF comp = "pred" THEN {NoModel, Unfitted} \cup FitResults ELSE {NoModel}
    /\ resultP = None
    /\ pcMap = IF comp = "map" THEN "call" ELSE "idle"
    /\ in_aqi \in IF comp = "map" THEN AqiInputs ELSE {None}
    /\ in_aod \in IF comp = "map" THEN AodInputs ELSE {None}
    /\ in_pred \in IF comp = "map" THEN PredInputs ELSE {None}
    /\ show_pred \in IF comp = "map" THEN Selectors ELSE {"both"}
    /\ layers = <<>> /\ control = FALSE /\ resultMap = None
    /\ pcM = IF comp = "main" THEN "call" ELSE "idle"
    /\ args_force \in IF comp = "main" THEN BOOLEAN ELSE {FALSE}
    /\ df_aqi = None /\ df_aod = None
    /\ m_model = None /\ df_pred = None /\ ran = {} /\ caught = {}

InitFetch == Boot("fetch")

\* lines 51-57: the mock shortcut, or the pool is opened
Enter ==
    /\ pcF = "call"
    /\ IF use_mock
       THEN /\ pcF' = "done"
            /\ resultF' = Some([source |-> "mock", df |-> MockTable])
       ELSE /\ pcF' = "submit"
            /\ UNCHANGED resultF
    /\ UNCHANGED <<use_mock, submitted, started, running, finished, resp,
                   reqCount, collected, all_data, notFetch>>

\* line 58: executor.submit for the next coordinate; after the last one the
\* caller moves on to as_completed
Submit ==
    /\ pcF = "submit"
    /\ submitted < NumCoords
    /\ submitted' = submitted + 1
    /\ pcF' = IF submitted' = NumCoords THEN "collect" ELSE "submit"
    /\ UNCHANGED <<use_mock, started, running, finished, resp, reqCount,
                   collected, all_data, resultF, notFetch>>

\* a worker of the pool is free and the queue holds a work item
CanStart == started < submitted /\ Cardinality(running) < max_workers

\* a worker takes the oldest queued work item and issues its GET (line 36)
Start ==
    /\ CanStart
    /\ LET c == started + 1 IN
        /\ started' = c
        /\ running' = running \cup {c}
        /\ reqCount' = [reqCount EXCEPT ![c] = @ + 1]
    /\ UNCHANGED <<pcF, use_mock, submitted, finished, resp, collected,
                   all_data, resultF, notFetch>>

\* the GET of coordinate c ends (answer, timeout or error); _fetch_point
\* returns and the future is resolved
Finish(c) ==
    /\ c \in running
    /\ \E r \in Responses : resp' = [resp EXCEPT ![c] = Some(r)]
    /\ running' = running \ {c}
    /\ finished' = finished \cup {c}
    /\ UNCHANGED <<pcF, use_mock, submitted, started, reqCount, collected,
                   all_data, resultF, notFetch>>

\* lines 59-60: as_completed yields a resolved future, its result is
\* appended by the calling thread; after the last one the pool is closed
Collect(c) ==
    /\ pcF = "collect"
    /\ c \in finished \ collected
    /\ all_data' = all_data \o _fetch_point(resp[c][1])
    /\ collected' = collected \cup {c}
    /\ pcF' = IF collected' = COORDS THEN "check" ELSE "collect"
    /\ UNCHANGED <<use_mock, submitted, started, running, finished, resp,
                   reqCount, resultF, notFetch>>

\* a slip: only the empty list triggers the fallback
TooFewEmptyOnly(raw) == raw = <<>>

\* line 62: if not all_data or len(all_data) < 10
TooFew(raw) == raw = <<>> \/ Len(raw) < MinRecords

\* lines 62-102
Finalize ==
    /\ pcF = "check"
    /\ resultF' = IF TooFew(all_data)
                  THEN Some([source |-> "mock", df |-> MockTable])
                  ELSE Some([source |-> "real", df |-> Normalize(all_data)])
    /\ pcF' = "done"
    /\ UNCHANGED <<use_mock, submitted, started, running, finished, resp,
                   reqCount, collected, all_data, notFetch>>

NextFetch ==
    \/ Enter
    \/ Submit
    \/ Start
    \/ \E c \in COORDS : Finish(c)
    \/ \E c \in COORDS : Collect(c)
    \/ Finalize

SpecFetch == InitFetch /\ [][NextFetch]_vars

(***************************************************************************)
(*                     Properties of the Point Fetcher                     *)
(***************************************************************************)

\* a request succeeded: an answer came, with status 200
Succeeded(c) == resp[c] # None /\ ~resp[c][1].exc /\ resp[c][1].status = 200

\* the records the request of coordinate c returned, none when it failed
SuccessBody(c) == IF Succeeded(c) THEN resp[c][1].body ELSE <<>>

\* the records of all successful requests, in COORDS order
FetchedInOrder == Flatten([c \in COORDS |-> SuccessBody(c)])

HasLatLonAqi(raw) == raw.Latitude # None /\ raw.Longitude # None /\ raw.AQI # None

\* the usable records: the fetched records that have latitude, longitude
\* and AQI, one per (latitude, longitude, parameter)
UsableTriples ==
    {<<r.Latitude, r.Longitude, PyOr(r.ParameterName, r.Parameter)>> :
        r \in {x \in Range(FetchedInOrder) : HasLatLonAqi(x)}}

ReturnedMock == resultF # None /\ resultF[1].source = "mock"
ReturnedReal == resultF # None /\ resultF[1].source = "real"
FetchDone == pcF = "done" /\ ~use_mock

\* C1 as stated: fewer than 10 usable records (counted after normalisation)
\* always give the seeded 1000-row synthetic table, and no real table with
\* fewer than 10 rows is ever returned.
C1_FallbackOnFewUsable ==
    FetchDone =>
        /\ Cardinality(UsableTriples) < MinRecords =>
              /\ ReturnedMock
              /\ resultF[1].df = _mock_aqi_data(1000)
        /\ ReturnedReal => Len(resultF[1].df) >= MinRecords

\* C1 amended: the count that decides is the number of raw records fetched,
\* before normalisation: fewer than 10 fetched records (none included) give
\* exactly the seeded 1000-row synthetic table, and a real table is returned
\* only from 10 or more fetched records.
C1_FallbackOnFewFetched ==
    FetchDone =>
        /\ Len(FetchedInOrder) < 10 =>
              /\ ReturnedMock
              /\ resultF[1].df = _mock_aqi_data(1000)
              /\ Len(resultF[1].df) = 1000
        /\ ReturnedReal => Len(FetchedInOrder) >= 10

\* some records were fetched, but fewer than 10: the fallback was taken
C1_Witness ==
    /\ FetchDone
    /\ Len(FetchedInOrder) \in 1 .. 9
    /\ ReturnedMock

\* C5: the returned table has no two rows with the same (latitude,
\* longitude, parameter), and every row has latitude, longitude and AQI.
C5_NoDuplicateTriples ==
    resultF # None =>
        LET df == resultF[1].df IN
        /\ Cardinality({Triple(df[i]) : i \in DOMAIN df}) = Len(df)
        /\ \A i \in DOMAIN df :
              df[i].latitude # None /\ df[i].longitude # None /\ df[i].aqi # None

\* a real table was returned from records of which some shared a triple and
\* some lacked a required field
C5_Witness ==
    /\ ReturnedReal
    /\ \E i, j \in DOMAIN all_data :
          /\ i # j
          /\ HasLatLonAqi(all_data[i]) /\ HasLatLonAqi(all_data[j])
          /\ NormalizeRow(all_data[i]).parameter = NormalizeRow(all_data[j]).parameter
          /\ all_data[i].Latitude = all_data[j].Latitude
          /\ all_data[i].Longitude = all_data[j].Longitude
    /\ \E i \in DOMAIN all_data : ~HasLatLonAqi(all_data[i])
    /\ Len(resultF[1].df) > 0

SameBag(s, t) ==
    /\ Len(s) = Len(t)
    /\ \A x \in Range(s) \cup Range(t) : Count(s, x) = Count(t, x)

C7_State ==
    /\ \A c \in COORDS : reqCount[c] <= 1
    /\ Cardinality(running) <= max_workers
    /\ (pcF \in {"check", "done"} /\ ~use_mock) =>
          /\ \A c \in COORDS : reqCount[c] = 1
          /\ running = {}
          /\ SameBag(all_data, FetchedInOrder)

C7_Append ==
    all_data' # all_data =>
        /\ pcF = "collect"
        /\ \E c \in finished \ collected :
              /\ collected' = collected \cup {c}
              /\ all_data' = all_data \o SuccessBody(c)

\* C7: every coordinate is requested once and never again, at most
\* max_workers requests are in flight, the accumulation list changes only
\* when the collecting thread appends the result of a finished request, and
\* after the last request it holds exactly the records of the successful
\* requests.
C7_Concurrency == []C7_State /\ [][C7_Append]_vars

\* all requests are over; one timed out, one was refused, one delivered
C7_Witness ==
    /\ FetchDone
    /\ \E c \in COORDS : resp[c][1].exc
    /\ \E c \in COORDS : ~resp[c][1].exc /\ resp[c][1].status # 200
    /\ all_data # <<>>

TriplesOf(df) == {Triple(df[i]) : i \in DOMAIN df}

\* C10: the fallback decision and the set of triples of the returned table
\* are those of the run that collects the results in COORDS order, whatever
\* the completion order was.
C10_OrderIndependent ==
    FetchDone =>
        LET canon == Flatten([c \in COORDS |-> _fetch_point(resp[c][1])]) IN
        /\ ReturnedMock <=> TooFew(canon)
        /\ ReturnedReal => TriplesOf(resultF[1].df) = TriplesOf(Normalize(canon))

\* a real table built from results collected out of COORDS order, two of
\* them sharing a triple
C10_Witness ==
    /\ ReturnedReal /\ ~use_mock
    /\ all_data # FetchedInOrder
    /\ Len(resultF[1].df) < Cardinality({i \in DOMAIN all_data : HasLatLonAqi(all_data[i])})
    /\ resultF[1].df # Normalize(FetchedInOrder)

(***************************************************************************)
(*                 fetch_past_week_data : the state machine                *)
(***************************************************************************)

InitWeek == Boot("week")

\* line 31: the mock branch computes the days; the other branch calls the
\* function again with use_mock=True and the default force_refresh
WeekEnter ==
    /\ pcW = "call"
    /\ IF use_mock_w
       THEN /\ daysLeft' = date_range(today - DaysBack, today)
            /\ pcW' = "loop"
            /\ UNCHANGED <<use_mock_w, force_refresh>>
       ELSE /\ use_mock_w' = TRUE
            /\ force_refresh' = FALSE
            /\ pcW' = "call"
            /\ UNCHANGED daysLeft
    /\ UNCHANGED <<today, stream, data, resultW, notWeek>>

\* lines 38-41: one turn of the loop over days
WeekDay ==
    /\ pcW = "loop"
    /\ daysLeft # <<>>
    /\ data' = Append(data, DayFrame(Head(daysLeft), Len(data) + 1, stream))
    /\ daysLeft' = Tail(daysLeft)
    /\ UNCHANGED <<pcW, today, use_mock_w, force_refresh, stream, resultW, notWeek>>

\* line 42: pd.concat(data, ignore_index=True)
WeekReturn ==
    /\ pcW = "loop"
    /\ daysLeft = <<>>
    /\ resultW' = Some(Flatten(data))
    /\ pcW' = "done"
    /\ UNCHANGED <<today, use_mock_w, force_refresh, stream, daysLeft, data, notWeek>>

NextWeek == WeekEnter \/ WeekDay \/ WeekReturn

SpecWeek == InitWeek /\ [][NextWeek]_vars

\* C4: the result has one row per (day, location) for the 7 consecutive days
\* ending today and the 700 locations: 7 dates, 700 rows per date, 4900 rows,
\* every AQI within [10, 300].
C4_SevenDays ==
    pcW = "done" =>
        LET df == resultW[1]
            dates == {df[i].date : i \in DOMAIN df}
        IN  /\ dates = (today - 6) .. today
            /\ Cardinality(dates) = 7
            /\ \A d \in dates : Cardinality({i \in DOMAIN df : df[i].date = d}) = 700
            /\ Len(df) = 4900
            /\ Cardinality({<<df[i].date, df[i].latitude, df[i].longitude>> : i \in DOMAIN df})
                  = Len(df)
            /\ \A i \in DOMAIN df : df[i].aqi >= 10 /\ df[i].aqi <= 300

(***************************************************************************)
(*        train_weekly_predictor / predict_tomorrow : the state machine    *)
(***************************************************************************)

InitPred == Boot("pred")

\* a call of train_weekly_predictor(df_week)
Train ==
    /\ pcP = "call"
    /\ model' \in train_weekly_predictor(df_week)
    /\ pcP' = "trained"
    /\ UNCHANGED <<df_week, resultP, notPred>>

\* a call of predict_tomorrow(df_week, model), with the model a caller
\* supplies or the one train_weekly_predictor returned
PredictTomorrow ==
    /\ pcP \in {"call", "trained"}
    /\ resultP' = Some(predict_tomorrow(df_week, model))
    /\ pcP' = "done"
    /\ UNCHANGED <<df_week, model, notPred>>

NextPred == Train \/ PredictTomorrow

SpecPred == InitPred /\ [][NextPred]_vars

\* the rows of the historical table (none for a missing one)
HistRows == IF df_week = None THEN <<>> ELSE df_week[1]

HistLocs == {LocKey(HistRows[i]) : i \in DOMAIN HistRows}

\* number of samples of a location
SamplesOf(key) == Cardinality({i \in DOMAIN HistRows : LocKey(HistRows[i]) = key})

\* the AQI values of a location, in the order of the table
AqiOf(key) ==
    LET rows == SelectSeq(HistRows, LAMBDA r : LocKey(r) = key)
    IN  [i \in DOMAIN rows |-> rows[i].aqi]

Untrained(mdl) == mdl = NoModel \/ ~mdl.fitted

PredictDone == pcP = "done" /\ resultP # None

\* C3: with an untrained model (none, or an unfitted regression object) or
\* fewer than 50 historical rows, predict_tomorrow returns exactly 3000
\* synthetic rows and does not raise; with a fitted model and at least 50
\* rows, what it returns is the real predictions, one per location that
\* has 3 samples, computed from the last 3 samples of that location.
C3_UntrainedFallsBack ==
    PredictDone =>
        LET res == resultP[1] IN
        /\ (Untrained(model) \/ Len(HistRows) < 50) =>
              /\ res.kind = "table"
              /\ res.synthetic
              /\ Len(res.rows) = 3000
        /\ (~Untrained(model) /\ Len(HistRows) >= 50 /\ res.kind = "table") =>
              /\ ~res.synthetic
              /\ {<<r.latitude, r.longitude>> : r \in Range(res.rows)}
                    = {k \in HistLocs : SamplesOf(k) >= 3}
              /\ Len(res.rows) = Cardinality({k \in HistLocs : SamplesOf(k) >= 3})
              /\ \A r \in Range(res.rows) :
                    LET a == AqiOf(<<r.latitude, r.longitude>>)
                        n == Len(a)
                        p == model.intercept + model.coef[1] * a[n]
                                + model.coef[2] * a[n - 1] + model.coef[3] * a[n - 2]
                    IN  r.aqi_pred = IF p < 10 THEN 10 ELSE IF p > 300 THEN 300 ELSE p

\* the complete-lag rows: all but the first 3 dated rows of every location
CompleteLagRows ==
    LET keys == SortedKeys(HistLocs)
        f[n \in 0 .. Len(keys)] ==
            IF n = 0 THEN 0
            ELSE f[n - 1] + (IF SamplesOf(keys[n]) > 3 THEN SamplesOf(keys[n]) - 3 ELSE 0)
    IN  f[Len(keys)]

\* C8: train_weekly_predictor returns a fitted model exactly when the input
\* has at least 100 rows and at least 50 rows with a complete lag history;
\* otherwise (a missing input included) it returns an unfitted model object.
C8_TrainedIff ==
    pcP = "trained" =>
        /\ model.kind = "LinearRegression"
        /\ model.fitted <=> (df_week # None /\ Len(HistRows) >= 100 /\ CompleteLagRows >= 50)

\* a fitted model came out of a table in which some location had no
\* complete lag row at all
C8_Witness ==
    /\ pcP = "trained"
    /\ model.fitted
    /\ \E k \in HistLocs : SamplesOf(k) <= 3
    /\ CompleteLagRows < Len(HistRows)

\* C9: every aqi_pred of a returned table lies in [10, 300], on the real and
\* on the synthetic path, and no location with fewer than 3 samples is among
\* the real predictions.
C9_PredictionsClipped ==
    (PredictDone /\ resultP[1].kind = "table") =>
        /\ \A r \in Range(resultP[1].rows) : r.aqi_pred >= 10 /\ r.aqi_pred <= 300
        /\ ~resultP[1].synthetic =>
              \A r \in Range(resultP[1].rows) : SamplesOf(<<r.latitude, r.longitude>>) >= 3

\* real predictions, some clipped at either end, from a table in which a
\* location with fewer than 3 samples was left out
C9_Witness ==
    /\ PredictDone /\ resultP[1].kind = "table" /\ ~resultP[1].synthetic
    /\ \E k \in HistLocs : SamplesOf(k) < 3
    /\ \E r \in Range(resultP[1].rows) :
          LET a == AqiOf(<<r.latitude, r.longitude>>)
          IN  Predict(model, <<a[Len(a)], a[Len(a) - 1], a[Len(a) - 2]>>) > 300
    /\ \E r \in Range(resultP[1].rows) : r.aqi_pred = 300

(***************************************************************************)
(*                      make_map : the state machine                       *)
(***************************************************************************)

InitMap == Boot("map")

\* line 14: the map is created
MapCreate ==
    /\ pcMap = "call"
    /\ layers' = <<>>
    /\ pcMap' = "aqi"
    /\ UNCHANGED <<in_aqi, in_aod, in_pred, show_pred, control, resultMap, notMap>>

\* lines 17-32
MapAqi ==
    /\ pcMap = "aqi"
    /\ layers' = IF ShowsAqi(in_aqi, show_pred)
                 THEN Append(layers, AqiLayer(in_aqi[1])) ELSE layers
    /\ pcMap' = "aod"
    /\ UNCHANGED <<in_aqi, in_aod, in_pred, show_pred, control, resultMap, notMap>>

\* lines 35-42
MapAod ==
    /\ pcMap = "aod"
    /\ layers' = IF ShowsAod(in_aod)
                 THEN Append(layers, AodLayer(in_aod[1])) ELSE layers
    /\ pcMap' = "pred"
    /\ UNCHANGED <<in_aqi, in_aod, in_pred, show_pred, control, resultMap, notMap>>

\* lines 45-57
MapPred ==
    /\ pcMap = "pred"
    /\ layers' = IF ShowsPred(in_pred, show_pred)
                 THEN Append(layers, PredLayer(in_pred[1])) ELSE layers
    /\ pcMap' = "control"
    /\ UNCHANGED <<in_aqi, in_aod, in_pred, show_pred, control, resultMap, notMap>>

\* lines 59-61: the layer control is added and the map returned
MapReturn ==
    /\ pcMap = "control"
    /\ control' = TRUE
    /\ resultMap' = Some([location |-> <<3950, -9835>>, zoom_start |-> 5,
                          layers |-> layers, control |-> TRUE])
    /\ pcMap' = "done"
    /\ UNCHANGED <<in_aqi, in_aod, in_pred, show_pred, layers, notMap>>

NextMap == MapCreate \/ MapAqi \/ MapAod \/ MapPred \/ MapReturn

SpecMap == InitMap /\ [][NextMap]_vars

Present(df) == df # None /\ df # Some(<<>>)

\* C6: the returned map has exactly one layer for every input that is
\* present, non-empty and selected (observations under both or current,
\* predictions under both or predicted, aerosol always) and no other layer;
\* make_map returns for every input.  With only a 5-row aerosol table the
\* map has the aerosol layer alone.
C6_OneLayerPerInput ==
    pcMap = "done" =>
        LET ls == resultMap[1].layers
            n(name) == Cardinality({i \in DOMAIN ls : ls[i].name = name})
        IN  /\ resultMap # None
            /\ n("Current AQI Levels")
                  = IF Present(in_aqi) /\ show_pred \in {"both", "current"} THEN 1 ELSE 0
            /\ n("AOD (MERRA-2)") = IF Present(in_aod) THEN 1 ELSE 0
            /\ n("Predicted AQI (Tomorrow)")
                  = IF Present(in_pred) /\ show_pred \in {"both", "predicted"} THEN 1 ELSE 0
            /\ Len(ls) = n("Current AQI Levels") + n("AOD (MERRA-2)")
                            + n("Predicted AQI (Tomorrow)")
            /\ (in_aqi = None /\ in_pred = None /\ in_aod # None /\ Len(in_aod[1]) = 5) =>
                  (Len(ls) = 1 /\ ls[1].name = "AOD (MERRA-2)")

\* the map of the spec's example: no observations, no predictions, 5
\* aerosol rows, one layer
C6_Witness ==
    /\ pcMap = "done"
    /\ in_aqi = None /\ in_pred = None
    /\ in_aod # None /\ Len(in_aod[1]) = 5
    /\ Len(resultMap[1].layers) = 1
    /\ Len(resultMap[1].layers[1].items[1].heat_data) = 5

(***************************************************************************)
(*                        main : the state machine                         *)
(***************************************************************************)

InitMain == Boot("main")

\* lines 12-16: the command line is parsed
MainParse ==
    /\ pcM = "call"
    /\ pcM' = "fetch"
    /\ UNCHANGED <<args_force, df_aqi, df_aod, m_model, df_pred, ran, caught, notMain>>

\* lines 19-23: the historical fetch, outside any try; for no table or an
\* empty one, _mock_weekly_data is imported from predict_aqi
MainFetch ==
    /\ pcM = "fetch"
    /\ ran' = ran \cup {"fetch"}
    /\ \E o \in FetchOutcomes :
          IF o.kind = "raise"
          THEN pcM' = "escaped" /\ UNCHANGED df_aqi
          ELSE IF o.df = None \/ o.df = Some(<<>>)
               THEN IF "_mock_weekly_data" \in PredictAqiNames
                    THEN pcM' = "aod" /\ df_aqi' = Some(WeekTable(3, 2, 0, FALSE))
                    ELSE pcM' = "escaped" /\ df_aqi' = o.df     \* ImportError
               ELSE pcM' = "aod" /\ df_aqi' = o.df
    /\ UNCHANGED <<args_force, df_aod, m_model, df_pred, caught, notMain>>

\* lines 26-30
MainAod ==
    /\ pcM = "aod"
    /\ ran' = ran \cup {"aod"}
    /\ \E o \in AodOutcomes :
          IF o.kind = "raise"
          THEN df_aod' = None /\ caught' = caught \cup {"aod"}
          ELSE df_aod' = o.df /\ UNCHANGED caught
    /\ pcM' = "train"
    /\ UNCHANGED <<args_force, df_aqi, m_model, df_pred, notMain>>

\* lines 33-38
MainTrain ==
    /\ pcM = "train"
    /\ ran' = ran \cup {"train"}
    /\ \E o \in train_predictor(df_aqi) :
          IF o.kind = "raise"
          THEN m_model' = None /\ caught' = caught \cup {"train"}
          ELSE m_model' = Some(o.tuple) /\ UNCHANGED caught
    /\ pcM' = "predict"
    /\ UNCHANGED <<args_force, df_aqi, df_aod, df_pred, notMain>>

\* lines 41-46
MainPredict ==
    /\ pcM = "predict"
    /\ IF m_model # None
       THEN /\ ran' = ran \cup {"predict"}
            /\ \E o \in PredictCall(m_model[1], df_aqi) :
                  IF o.kind = "raise"
                  THEN df_pred' = None /\ caught' = caught \cup {"predict"}
                  ELSE /\ o.result.kind = "table"
                       /\ df_pred' = Some(o.result.rows)
                       /\ UNCHANGED caught
       ELSE UNCHANGED <<df_pred, ran, caught>>
    /\ pcM' = "map"
    /\ UNCHANGED <<args_force, df_aqi, df_aod, m_model, notMain>>

\* lines 49-65: the summary line, then the map; a failure of the map is
\* reported and main returns early
MainRender ==
    /\ pcM = "map"
    /\ ran' = ran \cup {"map"}
    /\ \/ pcM' = "done" /\ UNCHANGED caught
       \/ pcM' = "returned" /\ caught' = caught \cup {"map"}
    /\ UNCHANGED <<args_force, df_aqi, df_aod, m_model, df_pred, notMain>>

NextMain == MainParse \/ MainFetch \/ MainAod \/ MainTrain \/ MainPredict \/ MainRender

SpecMain == InitMain /\ [][NextMain]_vars

\* C2: no exception leaves main; whatever failed before the map, the later
\* stages up to the map were run; and main ends early only when the map
\* failed.
C2_NoEscape ==
    /\ pcM # "escaped"
    /\ pcM \in {"done", "returned"} => {"fetch", "aod", "train", "map"} \subseteq ran
    /\ pcM = "returned" => "map" \in caught
=============================================================================
